---- MODULE Spec2Model ----
(***************************************************************************)
(* Olympic host-city pipeline: the text cleaners, the row normalizer       *)
(* (scrape_olympic_host_cities_normalize.py), the CSV cleaner              *)
(* (clean_hosts_full.py), the geocode cache (geocode_hosts.py,             *)
(* bootstrap_geocoded_json.py), the cache lookups (augment_geocodes.py,    *)
(* build_geocoded_db.py), the SQLite sinks, run_sql.py and the season      *)
(* scripts (populate_games_code.py, update_season.py).                     *)
(*                                                                         *)
(* A Python str is modelled as a sequence of characters, each character a  *)
(* one-element string.  The two footnote glyphs are written "dagger"       *)
(* (U+2020) and "sect" (U+00A7).                                           *)
(***************************************************************************)
EXTENDS Integers, Sequences, FiniteSets, TLC

VARIABLES
    script,     \* which script runs: "normalize", "hosts", "text", "row", "sql", "cache", "merge", "season"
                \* or a sink or lookup script
    pc,         \* position of the running script
    rows,       \* normalize: the rows parse_and_normalize has appended
    cleaned,    \* normalize: the list clean_rows returned (written to the clean CSV)
    source,     \* hosts: the data rows of app/hosts_full.csv
    kept,       \* hosts: the sorted list main wrote to app/hosts_clean.csv
    fn,         \* text, row, sql: which function is applied
    txt,        \* text: the current value of the field; row, sql: the argument, then the result
    prev,       \* text: the value of the field before the last application; row, sql: the argument
    applied,    \* text: how many times the cleaner has been applied
    prog,       \* cache: which script runs: "bootstrap" or "geocode" ("none" before the first)
    gpc,        \* cache: position of the running script; lookup: how far the export has come
    csv,        \* cache: the rows of the input CSV of the run
    pos,        \* cache: geocode_rows, index of the CSV row the loop is at
    cache,      \* cache: the dict 'cache' of the running script
    disk,       \* cache: the mapping stored in data/geocoded_hosts.json
    called,     \* cache: the provider calls geocode_rows has made in this run
    atLoad,     \* cache: what load_cache returned at the start of the run
    summary,    \* cache: the rows of data/geocoded_hosts.csv; lookup: the rows given coordinates
    runs,       \* cache: how many runs have been started
    table,      \* database: the rows of the table the sink script writes
    incoming,   \* database: the records of the last write to the table; lookup: the mapping of
                \* olympics_games_geocoded.json; season: the scripts that have run
    loads       \* database: how many writes to the table have been made

rowVars == <<script, pc, rows, cleaned, source, kept, fn, txt, prev, applied>>

geoVars == <<prog, gpc, csv, pos, cache, disk, called, atLoad, summary, runs>>

\* the variables of the programs that work on the cache and the databases
dbVars == <<table, incoming, loads>>

storeVars == <<geoVars, dbVars>>

\* what a step of a cache script leaves alone
notGeo == <<rowVars, dbVars>>

vars == <<rowVars, storeVars>>

\* no cache or database program is part of the run
StoresOff ==
    /\ prog = "none" /\ gpc = "off" /\ csv = <<>> /\ pos = 0
    /\ cache = <<>>
    /\ disk = [exists |-> FALSE, opened |-> FALSE, members |-> <<>>, closed |-> FALSE]
    /\ called = <<>> /\ atLoad = <<>>
    /\ summary = <<>> /\ runs = 0
    /\ table = {} /\ incoming = <<>> /\ loads = 0

(***************************************************************************)
(* Bounds of the model.                                                    *)
(***************************************************************************)
MaxLen == 4     \* longest free-text field the text specification enumerates
MaxApply == 2   \* how many times a cleaner is re-applied to one field
MaxRows == 3    \* longest input (table rows, CSV rows) of one run
MaxCsv == 2     \* longest input CSV of one run of a cache script
MaxRuns == 3    \* how many runs of the cache scripts follow one another
MaxUpserts == 3 \* how many records the sink scripts write to one database
MaxCells == 3   \* how many cells a <tr> given to extract_row_normalized has
MaxSql == 5     \* how many characters a SQL text given to split_statements has
MaxScripts == 4 \* how many runs of populate_games_code.py and update_season.py follow one another

(***************************************************************************)
(* Characters and character classes (Python str / re semantics).           *)
(***************************************************************************)
Digit == {"0", "1", "2", "3", "4", "5", "6", "7", "8", "9"}

UpperLetters == <<"A","B","C","D","E","F","G","H","I","J","K","L","M",
                  "N","O","P","Q","R","S","T","U","V","W","X","Y","Z">>

LowerLetters == <<"a","b","c","d","e","f","g","h","i","j","k","l","m",
                  "n","o","p","q","r","s","t","u","v","w","x","y","z">>

IsUpper(c) == \E i \in 1..26 : UpperLetters[i] = c

IsLower(c) == \E i \in 1..26 : LowerLetters[i] = c

\* \w of re: letters, digits, underscore
IsWord(c) == IsUpper(c) \/ IsLower(c) \/ c \in Digit \/ c = "_"

\* \s of re and the default of str.strip()
IsSpace(c) == c \in {" ", "\t", "\n", "\r"}

\* str.lower() on one character
LowerChar(c) == IF IsUpper(c) THEN LowerLetters[CHOOSE i \in 1..26 : UpperLetters[i] = c] ELSE c

Lower(s) == [i \in 1..Len(s) |-> LowerChar(s[i])]

DigitVal(c) ==
    CASE c = "0" -> 0 [] c = "1" -> 1 [] c = "2" -> 2 [] c = "3" -> 3 [] c = "4" -> 4
      [] c = "5" -> 5 [] c = "6" -> 6 [] c = "7" -> 7 [] c = "8" -> 8 [] c = "9" -> 9

DigitChar(d) == <<"0", "1", "2", "3", "4", "5", "6", "7", "8", "9">>[d + 1]

\* str.isdigit(): non-empty and every character a digit
IsDigitStr(s) == Len(s) > 0 /\ \A i \in 1..Len(s) : s[i] \in Digit

RECURSIVE IntOfStr(_)
\* int(s) for a digit string
IntOfStr(s) ==
    IF Len(s) = 0 THEN 0
    ELSE 10 * IntOfStr(SubSeq(s, 1, Len(s) - 1)) + DigitVal(s[Len(s)])

RECURSIVE StrOfInt(_)
\* str(n) for n >= 0
StrOfInt(n) ==
    IF n < 10 THEN <<DigitChar(n)>>
    ELSE Append(StrOfInt(n \div 10), DigitChar(n % 10))

\* s[a:b] of Python with 1-based inclusive bounds, empty when a > b
Slice(s, a, b) == IF a > b THEN <<>> ELSE SubSeq(s, a, b)

\* 'sub in s'
Contains(s, sub) ==
    \E i \in 1..(Len(s) - Len(sub) + 1) : SubSeq(s, i, i + Len(sub) - 1) = sub

RECURSIVE RemoveChars(_, _)
\* s with every character of the set cs removed (str.replace(c, ""), re.sub of a class)
RemoveChars(s, cs) ==
    IF Len(s) = 0 THEN <<>>
    ELSE IF Head(s) \in cs THEN RemoveChars(Tail(s), cs)
    ELSE <<Head(s)>> \o RemoveChars(Tail(s), cs)

RECURSIVE LStrip(_, _)
LStrip(s, cs) == IF Len(s) > 0 /\ Head(s) \in cs THEN LStrip(Tail(s), cs) ELSE s

RECURSIVE RStrip(_, _)
RStrip(s, cs) ==
    IF Len(s) > 0 /\ s[Len(s)] \in cs THEN RStrip(SubSeq(s, 1, Len(s) - 1), cs) ELSE s

\* str.strip(chars)
StripChars(s, cs) == RStrip(LStrip(s, cs), cs)

WhiteSpace == {" ", "\t", "\n", "\r"}

\* str.strip()
Strip(s) == StripChars(s, WhiteSpace)

\* index of the first "]" at or after position i, 0 when there is none
FirstClose(s, i) ==
    IF \E j \in i..Len(s) : s[j] = "]"
    THEN CHOOSE j \in i..Len(s) : s[j] = "]" /\ \A k \in i..(j - 1) : s[k] # "]"
    ELSE 0

RECURSIVE RemoveBrackets(_, _)
(* re.sub(r"\[[^\]]*\]", "", s) with minInner = 0 and                      *)
(* re.sub(r"\[\s*[^\]]+\s*\]", "", s) with minInner = 1: leftmost,         *)
(* non-overlapping matches, each from a "[" to the first "]" that follows  *)
(* it with at least minInner characters between.                           *)
RemoveBrackets(s, minInner) ==
    IF Len(s) = 0 THEN <<>>
    ELSE LET j == FirstClose(s, 2)
         IN  IF Head(s) = "[" /\ j # 0 /\ j - 2 >= minInner
             THEN RemoveBrackets(Slice(s, j + 1, Len(s)), minInner)
             ELSE <<Head(s)>> \o RemoveBrackets(Tail(s), minInner)

RECURSIVE CollapseSpace(_)
\* re.sub(r"\s+", " ", s)
CollapseSpace(s) ==
    IF Len(s) = 0 THEN <<>>
    ELSE IF IsSpace(Head(s))
         THEN <<" ">> \o CollapseSpace(LStrip(s, WhiteSpace))
         ELSE <<Head(s)>> \o CollapseSpace(Tail(s))

(***************************************************************************)
(* The three text cleaners.                                                *)
(***************************************************************************)
\* clean_normalized_csv.py
clean_text_csv(s) ==
    LET s1 == RemoveBrackets(s, 1)
        s2 == RemoveChars(s1, {"dagger"})
        s3 == Strip(CollapseSpace(s2))
    IN  StripChars(s3, {" ", ",", ";", ":", "\n", "\t", "\r"})

\* the control characters FOOTNOTE_PATTERN also removes
ControlMarkers == {"\\x10", "\\x13", "\\x14", "\\x15", "\\x16"}

\* clean_hosts_full.py
clean_text(s) ==
    IF Len(s) = 0 THEN <<>>
    ELSE LET s1 == RemoveChars(RemoveBrackets(s, 0), ControlMarkers \cup {"dagger", "sect"})
             s2 == RemoveChars(s1, {"dagger", "sect"})
         IN  StripChars(Strip(s2), {","})

\* scrape_olympic_host_cities_normalize.py, local to extract_row_normalized
strip_footnotes(s) ==
    Strip(RemoveChars(RemoveBrackets(s, 0), {"dagger", "sect"}))

Cleaners == {"clean_normalized_csv.clean_text", "clean_hosts_full.clean_text", "strip_footnotes"}

ApplyCleaner(f, s) ==
    CASE f = "clean_normalized_csv.clean_text" -> clean_text_csv(s)
      [] f = "clean_hosts_full.clean_text" -> clean_text(s)
      [] f = "strip_footnotes" -> strip_footnotes(s)

\* the characters free-text fields are drawn from
TextChars == {"a", " ", "\t", ",", ".", "[", "]", "dagger", "sect"}

TextInputs == UNION {[1..n -> TextChars] : n \in 0..MaxLen}

(***************************************************************************)
(* scrape_olympic_host_cities_normalize.py                                 *)
(***************************************************************************)
SUMMER_YEARS ==
    {1896, 1900, 1904, 1908, 1912, 1920, 1924, 1928, 1932, 1936,
     1948, 1952, 1956, 1960, 1964, 1968, 1972, 1976, 1980, 1984,
     1988, 1992, 1996, 2000, 2004, 2008, 2012, 2016, 2020, 2024}

WINTER_YEARS ==
    {1924, 1928, 1932, 1936, 1948, 1952, 1956, 1960,
     1964, 1968, 1972, 1976, 1980, 1984, 1988, 1992,
     1994, 1998, 2002, 2006, 2010, 2014, 2018, 2022}

CANCELLED_YEARS == {1916, 1940, 1944}

FUTURE_CUTOFF == 2024

\* the value None of an Optional[str]
None == "None"

\* an Optional[int] or Optional[dict]: the empty sequence for None, else <<value>>
Nothing == <<>>

Some(x) == <<x>>

\* four digits starting at position i
FourDigitsAt(s, i) == i >= 1 /\ i + 3 <= Len(s) /\ \A k \in i..(i + 3) : s[k] \in Digit

\* \b before position i when s[i] is a word character
WordStartAt(s, i) == i = 1 \/ ~IsWord(s[i - 1])

\* \b after position i when s[i] is a word character
WordEndAt(s, i) == i = Len(s) \/ ~IsWord(s[i + 1])

\* YEAR_RE = \b(18|19|20)\d{2}\b matches at position i
YearAt(s, i) ==
    /\ FourDigitsAt(s, i)
    /\ SubSeq(s, i, i + 1) \in {<<"1", "8">>, <<"1", "9">>, <<"2", "0">>}
    /\ WordStartAt(s, i)
    /\ WordEndAt(s, i + 3)

\* bool(YEAR_RE.search(s))
YearFound(s) == \E i \in 1..Len(s) : YearAt(s, i)

\* YEAR_RE.search(s).group(0): the leftmost match
YearText(s) ==
    LET i == CHOOSE i \in 1..Len(s) : YearAt(s, i) /\ \A k \in 1..(i - 1) : ~YearAt(s, k)
    IN  SubSeq(s, i, i + 3)

RECURSIVE Join(_, _)
\* sep.join(parts)
Join(parts, sep) ==
    IF Len(parts) = 0 THEN <<>>
    ELSE IF Len(parts) = 1 THEN parts[1]
    ELSE parts[1] \o sep \o Join(Tail(parts), sep)

\* the first index of a sequence that satisfies a test given as a set of indices, 0 if none
FirstIn(idx) == IF idx = {} THEN 0 ELSE CHOOSE i \in idx : \A k \in idx : i <= k

(* extract_row_normalized: a cell is [text |-> c.get_text(" ", strip=True), *)
(* link |-> c.find("a") is not None]; the caption None is the empty string  *)
(* (the function only ever reads 'caption or ""').                          *)
extract_row_normalized(cells, caption) ==
    LET n == Len(cells)
        texts == [i \in 1..n |-> strip_footnotes(cells[i].text)]
        raw == Join(texts, <<" ", "|", " ">>)
        yi == FirstIn({i \in 1..n : YearFound(texts[i])})
        year == IF yi = 0 THEN <<>> ELSE YearText(texts[yi])
        li == FirstIn({i \in 1..n : cells[i].link /\ ~YearFound(texts[i])})
        linked == IF li = 0 THEN <<>> ELSE texts[li]
        fi == FirstIn({i \in 1..n : Len(texts[i]) > 0 /\ ~YearFound(texts[i])})
        city == IF Len(linked) > 0 THEN linked
                ELSE IF fi = 0 THEN <<>> ELSE texts[fi]
        idx == FirstIn({i \in 1..n : texts[i] = city})
        country == IF Len(city) > 0 /\ idx + 1 <= n /\ ~YearFound(texts[idx + 1])
                   THEN texts[idx + 1] ELSE <<>>
        cap == Lower(caption)
        season == IF Contains(cap, <<"s", "u", "m", "m", "e", "r">>) THEN "Summer"
                  ELSE IF Contains(cap, <<"w", "i", "n", "t", "e", "r">>) THEN "Winter"
                  ELSE IF \E i \in 1..n : Contains(Lower(texts[i]), <<"s", "u", "m", "m", "e", "r">>) THEN "Summer"
                  ELSE IF \E i \in 1..n : Contains(Lower(texts[i]), <<"w", "i", "n", "t", "e", "r">>) THEN "Winter"
                  ELSE "Other"
    IN  [Year |-> year, City |-> city, Country |-> country, Season |-> season,
         Notes |-> <<>>, Source_table |-> caption, Raw |-> raw]

\* re.search(r"\(\s*\d{4}[^)]*\d{4}[^)]*\)", raw)
ParenYearsFound(raw) ==
    \E i \in 1..Len(raw) :
        /\ raw[i] = "("
        /\ \E k \in (i + 1)..Len(raw) :
            /\ \A w \in (i + 1)..(k - 1) : IsSpace(raw[w])
            /\ FourDigitsAt(raw, k)
            /\ \E m \in (k + 4)..Len(raw) :
                /\ FourDigitsAt(raw, m)
                /\ \E e \in (m + 4)..Len(raw) :
                    /\ raw[e] = ")"
                    /\ \A x \in (k + 4)..(e - 1) : raw[x] # ")"

\* re.search(r"\b\d\s*\(\d{4}.*\)", raw)
CountParenFound(raw) ==
    \E i \in 1..Len(raw) :
        /\ raw[i] \in Digit
        /\ WordStartAt(raw, i)
        /\ \E p \in (i + 1)..Len(raw) :
            /\ \A w \in (i + 1)..(p - 1) : IsSpace(raw[w])
            /\ raw[p] = "("
            /\ FourDigitsAt(raw, p + 1)
            /\ \E e \in (p + 5)..Len(raw) :
                /\ raw[e] = ")"
                /\ \A x \in (p + 5)..(e - 1) : raw[x] # "\n"

\* mutant of is_summary_row: the patterns are looked for in Notes, not in Raw
is_summary_row_notes(row) ==
    /\ ~IsDigitStr(row.Year)
    /\ (ParenYearsFound(row.Notes) \/ CountParenFound(row.Notes))

\* is_summary_row of the normalize script
is_summary_row(row) ==
    /\ ~IsDigitStr(row.Year)
    /\ (ParenYearsFound(row.Raw) \/ CountParenFound(row.Raw))

\* mutant of determine_season_by_year: the Summer list is looked at first
determine_season_by_year_summer_first(year) ==
    IF year \in SUMMER_YEARS THEN "Summer"
    ELSE IF year \in WINTER_YEARS THEN "Winter"
    ELSE None

determine_season_by_year(year) ==
    IF year \in WINTER_YEARS THEN "Winter"
    ELSE IF year \in SUMMER_YEARS THEN "Summer"
    ELSE None

\* clean_rows: the merged-name fix of the city
FixCity(city) == IF city = <<"M", "e", "l", "b", "o", "u", "r", "n", "e", "S", "t", "o", "c", "k", "h", "o", "l", "m">> THEN <<"M", "e", "l", "b", "o", "u", "r", "n", "e", " ", "/", " ", "S", "t", "o", "c", "k", "h", "o", "l", "m">> ELSE city

\* clean_rows: the country that goes with the merged-name fix
FixCountry(city, country) ==
    IF city = <<"M", "e", "l", "b", "o", "u", "r", "n", "e", "S", "t", "o", "c", "k", "h", "o", "l", "m">>
       /\ country \in {<<"A", "u", "s", "t", "r", "a", "l", "i", "a", "S", "w", "e", "d", "e", "n">>, <<"O", "c", "e", "a", "n", "i", "a", "E", "u", "r", "o", "p", "e">>, <<>>}
    THEN <<"A", "u", "s", "t", "r", "a", "l", "i", "a", " ", "/", " ", "S", "w", "e", "d", "e", "n">>
    ELSE country

\* clean_rows: the numeric year of a row, None when there is none
RowYear(r) ==
    IF IsDigitStr(r.Year) THEN Some(IntOfStr(r.Year))
    ELSE IF YearFound(r.Raw) THEN Some(IntOfStr(YearText(r.Raw)))
    ELSE Nothing

\* mutant of RowNotes: the cancellation note is not set
RowNotesKept(year, notes) == Strip(notes)

\* clean_rows: the notes of a row of the given year
RowNotes(year, notes) ==
    IF year \in CANCELLED_YEARS THEN <<"C", "a", "n", "c", "e", "l", "l", "e", "d", " ", "d", "u", "e", " ", "t", "o", " ", "w", "a", "r">> ELSE Strip(notes)

\* clean_rows: season = determine_season_by_year(year) or r.get("Season", "Other")
RowSeason(year, r) ==
    IF determine_season_by_year(year) # None THEN determine_season_by_year(year) ELSE r.Season

\* clean_rows: key = (year, season, city)
RowKey(year, season, city) == <<year, season, city>>

(* clean_rows, one iteration of the loop up to the test of the key: Nothing *)
(* when a 'continue' is taken, else the key and the record to append.       *)
CleanRowsCandidate(r) ==
    IF is_summary_row(r) THEN Nothing
    ELSE IF RowYear(r) = Nothing THEN Nothing
    ELSE LET city == FixCity(Strip(r.City))
             country == FixCountry(Strip(r.City), Strip(r.Country))
             year == RowYear(r)[1]
         IN  IF year > FUTURE_CUTOFF THEN Nothing
             ELSE IF RowSeason(year, r) = "Other" THEN Nothing
             ELSE Some([key |-> RowKey(year, RowSeason(year, r), city),
                        rec |-> [Year |-> StrOfInt(year), City |-> city, Country |-> country,
                                 Season |-> RowSeason(year, r), Notes |-> RowNotes(year, r.Notes),
                                 Source_table |-> r.Source_table, Raw |-> r.Raw]])

\* mutant of IsDuplicate: the test of the key is lost
IsDuplicateNever(key, seen) == FALSE

\* 'if key in seen: continue' of both cleaning loops
IsDuplicate(key, seen) == key \in seen

RECURSIVE CleanRowsLoopLastWins(_, _, _)
\* mutant of CleanRowsLoop: a later row of a key replaces the record of the earlier one
CleanRowsLoopLastWins(rs, acc, seen) ==
    IF Len(rs) = 0 THEN acc
    ELSE LET c == CleanRowsCandidate(Head(rs))
         IN  IF c = Nothing THEN CleanRowsLoopLastWins(Tail(rs), acc, seen)
             ELSE IF c[1].key \in seen
                  THEN CleanRowsLoopLastWins(Tail(rs),
                           [i \in 1..Len(acc) |->
                               IF <<IntOfStr(acc[i].Year), acc[i].Season, acc[i].City>> = c[1].key
                               THEN c[1].rec ELSE acc[i]],
                           seen)
             ELSE CleanRowsLoopLastWins(Tail(rs), Append(acc, c[1].rec), seen \cup {c[1].key})

RECURSIVE CleanRowsLoop(_, _, _)
\* clean_rows: the loop over the rows, with the list and the set it builds
CleanRowsLoop(rs, acc, seen) ==
    IF Len(rs) = 0 THEN acc
    ELSE LET c == CleanRowsCandidate(Head(rs))
         IN  IF c = Nothing THEN CleanRowsLoop(Tail(rs), acc, seen)
             ELSE IF IsDuplicate(c[1].key, seen) THEN CleanRowsLoop(Tail(rs), acc, seen)
             ELSE CleanRowsLoop(Tail(rs), Append(acc, c[1].rec), seen \cup {c[1].key})

\* order = {"Summer": 0, "Winter": 1}; order.get(season, 2)
SeasonOrder(season) == IF season = "Summer" THEN 0 ELSE IF season = "Winter" THEN 1 ELSE 2

\* comparison of the sort keys (year, order), as Python compares tuples
KeyLess(a, b) == a[1] < b[1] \/ (a[1] = b[1] /\ a[2] < b[2])

RECURSIVE InsertStable(_, _, _)
\* x, whose key is k, put after every element of the sorted list whose key is not greater
InsertStable(sorted, x, k) ==
    IF Len(sorted) = 0 THEN <<x>>
    ELSE IF KeyLess(k, Head(sorted).k) THEN <<x>> \o sorted
    ELSE <<Head(sorted)>> \o InsertStable(Tail(sorted), x, k)

RECURSIVE SortKeyed(_, _)
\* list.sort(key=...) on a list of [k |-> key, v |-> element]: a stable sort
SortKeyed(list, sorted) ==
    IF Len(list) = 0 THEN sorted
    ELSE SortKeyed(Tail(list), InsertStable(sorted, Head(list), Head(list).k))

\* cleaned.sort(key=lambda x: (int(x["Year"]), order.get(x["Season"], 2)))
SortCleaned(list) ==
    LET keyed == [i \in 1..Len(list) |->
                    [k |-> <<IntOfStr(list[i].Year), SeasonOrder(list[i].Season)>>, v |-> list[i]]]
        sorted == SortKeyed(keyed, <<>>)
    IN  [i \in 1..Len(sorted) |-> sorted[i].v]

clean_rows(rs) == SortCleaned(CleanRowsLoop(rs, <<>>, {}))

\* a cell of a <tr>
Cell(t, l) == [text |-> t, link |-> l]

\* the <tr> rows a page is built from: the cells of the row and the caption of its table
TableRows ==
    { [cells |-> <<Cell(<<"M", "e", "l", "b", "o", "u", "r", "n", "e", "S", "t", "o", "c", "k", "h", "o", "l", "m">>, TRUE), Cell(<<"A", "u", "s", "t", "r", "a", "l", "i", "a", "S", "w", "e", "d", "e", "n">>, FALSE), Cell(<<"1", "9", "5", "6">>, FALSE)>>,
       caption |-> <<"S", "u", "m", "m", "e", "r", " ", "G", "a", "m", "e", "s">>],
      [cells |-> <<Cell(<<"A", "t", "h", "e", "n", "s">>, TRUE), Cell(<<"G", "R", "E">>, FALSE), Cell(<<"1", "8", "9", "6">>, FALSE)>>,
       caption |-> <<"S", "u", "m", "m", "e", "r", " ", "G", "a", "m", "e", "s">>],
      [cells |-> <<Cell(<<"A", "t", "h", "e", "n", "s", "[", "a", "]">>, TRUE), Cell(<<"H", "E", "L">>, FALSE), Cell(<<"1", "8", "9", "6">>, FALSE)>>,
       caption |-> <<>>],
      [cells |-> <<Cell(<<"A", "t", "h", "e", "n", "s">>, TRUE), Cell(<<"G", "R", "E">>, FALSE), Cell(<<"2", " ", "(", "1", "8", "9", "6", ",", " ", "2", "0", "0", "4", ")">>, FALSE)>>,
       caption |-> <<>>],
      [cells |-> <<Cell(<<"O", "l", "y", "m", "p", "i", "a">>, FALSE), Cell(<<"2", " ", "(", "1", "7", "0", "0", ",", " ", "1", "7", "0", "4", ")">>, FALSE)>>,
       caption |-> <<"S", "u", "m", "m", "e", "r", " ", "G", "a", "m", "e", "s">>],
      [cells |-> <<Cell(<<"P", "a", "r", "i", "s">>, TRUE), Cell(<<"F", "R", "A">>, FALSE), Cell(<<"1", "8", "5", "0">>, FALSE)>>,
       caption |-> <<"S", "u", "m", "m", "e", "r", " ", "G", "a", "m", "e", "s">>],
      [cells |-> <<Cell(<<"B", "e", "r", "l", "i", "n">>, TRUE), Cell(<<"G", "E", "R">>, FALSE), Cell(<<"1", "9", "1", "6">>, FALSE)>>,
       caption |-> <<"S", "u", "m", "m", "e", "r", " ", "G", "a", "m", "e", "s">>],
      [cells |-> <<Cell(<<"B", "e", "r", "l", "i", "n">>, TRUE), Cell(<<"G", "E", "R">>, FALSE), Cell(<<"1", "9", "1", "6">>, FALSE)>>,
       caption |-> <<>>],
      [cells |-> <<Cell(<<"A", "t", "h", "e", "n", "s">>, TRUE), Cell(<<"1", "9", "0", "6">>, FALSE)>>,
       caption |-> <<"W", "i", "n", "t", "e", "r", " ", "G", "a", "m", "e", "s">>],
      [cells |-> <<Cell(<<"A", "t", "h", "e", "n", "s">>, TRUE), Cell(<<"S", "u", "m", "m", "e", "r", " ", "1", "9", "0", "6">>, FALSE)>>,
       caption |-> <<>>],
      [cells |-> <<Cell(<<"dagger">>, FALSE), Cell(<<"1", "9", "2", "4">>, FALSE)>>,
       caption |-> <<"W", "i", "n", "t", "e", "r", " ", "G", "a", "m", "e", "s">>],
      [cells |-> <<Cell(<<"1", "9", "2", "4">>, FALSE), Cell(<<"P", "a", "r", "i", "s">>, TRUE), Cell(<<"F", "R", "A">>, FALSE)>>,
       caption |-> <<"S", "u", "m", "m", "e", "r", " ", "G", "a", "m", "e", "s">>],
      [cells |-> <<Cell(<<"L", "A">>, TRUE), Cell(<<"U", "S", "A">>, FALSE), Cell(<<"2", "0", "2", "8">>, FALSE)>>,
       caption |-> <<"S", "u", "m", "m", "e", "r", " ", "G", "a", "m", "e", "s">>],
      [cells |-> <<Cell(<<"E", "u", "r", "o", "p", "e">>, FALSE), Cell(<<"3", "0">>, FALSE)>>,
       caption |-> <<>>],
      [cells |-> <<Cell(<<"[", "b", "]">>, FALSE)>>,
       caption |-> <<>>] }

(***************************************************************************)
(* clean_hosts_full.py                                                     *)
(***************************************************************************)
CODE_YEAR_MAP ==
    (<<"0", "0", "8">> :> 1924) @@ (<<"0", "0", "9">> :> 1928) @@ (<<"0", "1", "0">> :> 1932) @@ (<<"0", "1", "1">> :> 1936)
    @@ (<<"0", "1", "4">> :> 1948) @@ (<<"0", "1", "5">> :> 1952) @@ (<<"0", "2", "5">> :> 1992)

\* MULTI_YEAR_SUMMARY = \b\d+\s*\(\d{4}.*\d{4}.*\) found in s
MultiYearSummaryFound(s) ==
    \E i \in 1..Len(s) :
        /\ s[i] \in Digit
        /\ WordStartAt(s, i)
        /\ \E p \in (i + 1)..Len(s) :
            /\ \E q \in i..(p - 1) :
                /\ \A d \in i..q : s[d] \in Digit
                /\ \A w \in (q + 1)..(p - 1) : IsSpace(s[w])
            /\ s[p] = "("
            /\ FourDigitsAt(s, p + 1)
            /\ \E m \in (p + 5)..Len(s) :
                /\ FourDigitsAt(s, m)
                /\ \E e \in (m + 4)..Len(s) :
                    /\ s[e] = ")"
                    /\ \A x \in (p + 5)..(e - 1) : s[x] # "\n"

\* mutant of split_merged_city: the merged name is left as it is
split_merged_city_identity(city) == city

split_merged_city(city) ==
    IF city = <<"M", "e", "l", "b", "o", "u", "r", "n", "e", "S", "t", "o", "c", "k", "h", "o", "l", "m">> THEN <<"M", "e", "l", "b", "o", "u", "r", "n", "e", " ", "/", " ", "S", "t", "o", "c", "k", "h", "o", "l", "m">> ELSE city

\* infer_year: None is Nothing, a year y is Some(y)
infer_year(row_year, notes, country) ==
    IF IsDigitStr(row_year) THEN Some(IntOfStr(row_year))
    ELSE IF Len(notes) > 0 /\ FourDigitsAt(Strip(notes), 1)
            /\ (Len(Strip(notes)) = 4 \/ Strip(notes)[5] \notin Digit)
         THEN Some(IntOfStr(SubSeq(Strip(notes), 1, 4)))
    ELSE IF Len(country) >= 4 /\ country[1] = "S"
            /\ (\A k \in 2..4 : country[k] \in Digit)
            /\ SubSeq(country, 2, 4) \in DOMAIN CODE_YEAR_MAP
         THEN Some(CODE_YEAR_MAP[SubSeq(country, 2, 4)])
    ELSE Nothing

\* mutant of determine_season: a year in neither list is taken for a Summer year
determine_season_default(year) ==
    IF year \in WINTER_YEARS THEN "Winter" ELSE "Summer"

determine_season(year) ==
    IF year \in WINTER_YEARS THEN "Winter"
    ELSE IF year \in SUMMER_YEARS THEN "Summer"
    ELSE None

\* is_summary_row of clean_hosts_full.py
hosts_is_summary_row(year_val, season, city, notes) ==
    \/ /\ ~IsDigitStr(year_val)
       /\ season \in {<<"S", "u", "m", "m", "e", "r">>, <<"W", "i", "n", "t", "e", "r">>}
       /\ MultiYearSummaryFound(notes)
    \/ /\ Len(year_val) > 0
       /\ ~IsDigitStr(year_val)
       /\ season \in {<<"S", "u", "m", "m", "e", "r">>, <<"W", "i", "n", "t", "e", "r">>}
       /\ Len(notes) = 0

\* main: key = (year, season, city)
HostsKey(year, season, city) == <<year, season, city>>

\* main: 'if year in CANCELLED_YEARS or year > FUTURE_CUTOFF: continue'
HostsYearRejected(year) == year \in CANCELLED_YEARS \/ year > FUTURE_CUTOFF

(* main, one iteration of the loop over the CSV rows up to the test of the  *)
(* key: Nothing when a 'continue' is taken, else the key and the record.    *)
HostsCandidate(raw) ==
    IF Len(raw) < 5 THEN Nothing
    ELSE IF hosts_is_summary_row(raw[1], raw[2], raw[3], raw[5]) THEN Nothing
    ELSE LET city == split_merged_city(clean_text(raw[3]))
             country == IF city = <<"M", "e", "l", "b", "o", "u", "r", "n", "e", " ", "/", " ", "S", "t", "o", "c", "k", "h", "o", "l", "m">>
                        THEN <<"A", "u", "s", "t", "r", "a", "l", "i", "a", " ", "/", " ", "S", "w", "e", "d", "e", "n">> ELSE clean_text(raw[4])
             notes == clean_text(raw[5])
             year == infer_year(Strip(raw[1]), notes, Strip(raw[4]))
         IN  IF year = Nothing THEN Nothing
             ELSE IF HostsYearRejected(year[1]) THEN Nothing
             ELSE IF determine_season(year[1]) = None THEN Nothing
             ELSE Some([key |-> HostsKey(year[1], determine_season(year[1]), city),
                        rec |-> [year |-> year[1], season |-> determine_season(year[1]),
                                 city |-> city, country |-> country, notes |-> notes]])

RECURSIVE HostsLoop(_, _, _)
\* main: the loop over the CSV rows, with the list and the set it builds
HostsLoop(rs, acc, seen) ==
    IF Len(rs) = 0 THEN acc
    ELSE LET c == HostsCandidate(Head(rs))
         IN  IF c = Nothing THEN HostsLoop(Tail(rs), acc, seen)
             ELSE IF IsDuplicate(c[1].key, seen) THEN HostsLoop(Tail(rs), acc, seen)
             ELSE HostsLoop(Tail(rs), Append(acc, c[1].rec), seen \cup {c[1].key})

\* kept.sort(key=lambda r: (r["year"], order[r["season"]]))
SortKept(list) ==
    LET keyed == [i \in 1..Len(list) |->
                    [k |-> <<list[i].year, SeasonOrder(list[i].season)>>, v |-> list[i]]]
        sorted == SortKeyed(keyed, <<>>)
    IN  [i \in 1..Len(sorted) |-> sorted[i].v]

\* main of clean_hosts_full.py: the rows written to hosts_clean.csv
clean_hosts_main(rs) == SortKept(HostsLoop(rs, <<>>, {}))

\* the data rows app/hosts_full.csv is built from: year, season, city, country, notes
CsvRows ==
    { <<<<"1", "9", "5", "6">>, <<"S", "u", "m", "m", "e", "r">>, <<"M", "e", "l", "b", "o", "u", "r", "n", "e", "S", "t", "o", "c", "k", "h", "o", "l", "m">>, <<"A", "u", "s", "t", "r", "a", "l", "i", "a", "S", "w", "e", "d", "e", "n">>, <<>>>>,
      <<<<"1", "8", "9", "6">>, <<"S", "u", "m", "m", "e", "r">>, <<"A", "t", "h", "e", "n", "s">>, <<"G", "R", "E">>, <<>>>>,
      <<<<"1", "8", "9", "6">>, <<"S", "u", "m", "m", "e", "r">>, <<"A", "t", "h", "e", "n", "s", "[", "a", "]">>, <<"H", "E", "L">>, <<"f", "i", "r", "s", "t", " ", ",">>>>,
      <<<<>>, <<"S", "u", "m", "m", "e", "r">>, <<"A", "t", "h", "e", "n", "s">>, <<"G", "R", "E">>, <<"2", " ", "(", "1", "8", "9", "6", ",", " ", "2", "0", "0", "4", ")">>>>,
      <<<<>>, <<"W", "i", "n", "t", "e", "r">>, <<"2", " ", "(", "1", "8", "9", "6", ",", " ", "2", "0", "0", "4", ")">>, <<"S", "0", "0", "8">>, <<>>>>,
      <<<<>>, <<>>, <<"A", "t", "h", "e", "n", "s">>, <<"G", "R", "E">>, <<"2", " ", "(", "1", "8", "9", "6", ",", " ", "2", "0", "0", "4", ")">>>>,
      <<<<"1", "9", "1", "6">>, <<"S", "u", "m", "m", "e", "r">>, <<"B", "e", "r", "l", "i", "n">>, <<"G", "E", "R">>, <<>>>>,
      <<<<"1", "8", "5", "0">>, <<"S", "u", "m", "m", "e", "r">>, <<"P", "a", "r", "i", "s">>, <<"F", "R", "A">>, <<>>>>,
      <<<<"1", "9", "2", "4">>, <<"S", "u", "m", "m", "e", "r">>, <<"dagger">>, <<"F", "R", "A">>, <<>>>>,
      <<<<"1", "9", "2", "4">>, <<"S", "u", "m", "m", "e", "r">>, <<"P", "a", "r", "i", "s">>, <<"F", "R", "A">>, <<>>>>,
      <<<<"2", "0", "2", "8">>, <<"S", "u", "m", "m", "e", "r">>, <<"L", "A">>, <<"U", "S", "A">>, <<>>>>,
      <<<<"A", "t", "h", "e", "n", "s">>, <<"W", "i", "n", "t", "e", "r">>, <<>>, <<>>, <<>>>>,
      <<<<>>, <<"W", "i", "n", "t", "e", "r">>, <<"O", "s", "l", "o">>, <<"N", "O", "R">>, <<"1", "9", "5", "2", " ", "g", "a", "m", "e", "s">>>>,
      <<<<"1", "8", "9", "6">>, <<"S", "u", "m", "m", "e", "r">>>> }

SourceFiles == UNION {[1..n -> CsvRows] : n \in 0..MaxRows}

(***************************************************************************)
(* Specification Spec: one run of the normalize script (the rows of the    *)
(* page are parsed one by one, then clean_rows runs) or one run of         *)
(* clean_hosts_full.py on a source file.                                   *)
(***************************************************************************)
Init ==
    /\ script \in {"normalize", "hosts"}
    /\ pc = "input"
    /\ rows = <<>>
    /\ cleaned = <<>>
    /\ source \in (IF script = "hosts" THEN SourceFiles ELSE {<<>>})
    /\ kept = <<>>
    /\ fn = "none" /\ txt = <<>> /\ prev = <<>> /\ applied = 0
    /\ StoresOff

\* parse_and_normalize: one <tr> of a table; a totally empty row is not appended
ParseRow ==
    /\ script = "normalize"
    /\ pc = "input"
    /\ Len(rows) < MaxRows
    /\ \E tr \in TableRows :
        LET norm == extract_row_normalized(tr.cells, tr.caption)
        IN  rows' = IF Len(norm.Year) = 0 /\ Len(norm.City) = 0 /\ Len(norm.Raw) = 0
                    THEN rows ELSE Append(rows, norm)
    /\ UNCHANGED <<script, pc, cleaned, source, kept, fn, txt, prev, applied>>
    /\ UNCHANGED storeVars

\* main of the normalize script: cleaned = clean_rows(rows); write_csv(cleaned, out_clean)
CleanRows ==
    /\ script = "normalize"
    /\ pc = "input"
    /\ cleaned' = clean_rows(rows)
    /\ pc' = "done"
    /\ UNCHANGED <<script, rows, source, kept, fn, txt, prev, applied>>
    /\ UNCHANGED storeVars

\* main of clean_hosts_full.py: read the source, filter, sort, write
CleanHosts ==
    /\ script = "hosts"
    /\ pc = "input"
    /\ kept' = clean_hosts_main(source)
    /\ pc' = "done"
    /\ UNCHANGED <<script, rows, cleaned, source, fn, txt, prev, applied>>
    /\ UNCHANGED storeVars

Next == ParseRow \/ CleanRows \/ CleanHosts

Spec == Init /\ [][Next]_vars


(***************************************************************************)
(* Specification SpecText: a cleaner applied, and re-applied, to a field.  *)
(***************************************************************************)
InitText ==
    /\ script = "text"
    /\ pc = "text"
    /\ rows = <<>> /\ cleaned = <<>> /\ source = <<>> /\ kept = <<>>
    /\ fn \in Cleaners
    /\ txt \in TextInputs
    /\ prev = <<>>
    /\ applied = 0
    /\ StoresOff

\* one call of the cleaner on the field (clean_row, main, extract_row_normalized)
CleanField ==
    /\ script = "text"
    /\ applied < MaxApply
    /\ txt' = ApplyCleaner(fn, txt)
    /\ prev' = txt
    /\ applied' = applied + 1
    /\ UNCHANGED <<script, pc, rows, cleaned, source, kept, fn>>
    /\ UNCHANGED storeVars

NextText == CleanField

SpecText == InitText /\ [][NextText]_vars

(***************************************************************************)
(* The geocode cache: geocode_hosts.py and bootstrap_geocoded_json.py.     *)
(*                                                                         *)
(* A Python dict is modelled as the sequence of its <<key, value>> items   *)
(* in insertion order.  None is Nothing, any other value x of an optional  *)
(* field is Some(x).  A latitude or longitude is an integer.               *)
(***************************************************************************)
DictKeys(d) == {d[i][1] : i \in 1..Len(d)}

\* key in d
DictHas(d, k) == k \in DictKeys(d)

\* d[key]
DictGet(d, k) == d[CHOOSE i \in 1..Len(d) : d[i][1] = k][2]

\* d[key] = value
DictSet(d, k, v) ==
    IF DictHas(d, k)
    THEN [i \in 1..Len(d) |-> IF d[i][1] = k THEN <<k, v>> ELSE d[i]]
    ELSE Append(d, <<k, v>>)

\* make_key: Year|City|Country, each stripped
make_key(row) == Strip(row.Year) \o <<"|">> \o Strip(row.City) \o <<"|">> \o Strip(row.Country)

\* query = ", ".join([p for p in (city, country) if p])
Query(city, country) == Join(SelectSeq(<<city, country>>, LAMBDA p : Len(p) > 0), <<",", " ">>)

(* The cache file: absent, or the text json.dump has written so far (the   *)
(* opening brace, the members written, the closing brace).                 *)
NoFile == [exists |-> FALSE, opened |-> FALSE, members |-> <<>>, closed |-> FALSE]

\* json.load accepts the text of the file
WellFormed(f) == f.exists /\ f.opened /\ f.closed

\* load_cache: {} when the file does not exist, else the mapping json.load returns
load_cache(f) == IF ~f.exists THEN <<>> ELSE f.members

\* save_cache: the file after open(path, "w") and json.dump(cache, f) have completed
save_cache(c) == [exists |-> TRUE, opened |-> TRUE, members |-> c, closed |-> TRUE]

\* what the provider call geocode(query) can do: return a Location, return None, raise
Answers ==
    { [kind |-> "location", latitude |-> 48, longitude |-> 2, raw |-> Some([display_name |-> <<"P", "a", "r", "i", "s", ",", " ", "F", "R">>])],
      [kind |-> "location", latitude |-> 40, longitude |-> -74, raw |-> Some([display_name |-> <<"N", "Y">>])],
      [kind |-> "none", latitude |-> 0, longitude |-> 0, raw |-> Nothing],
      [kind |-> "raise", latitude |-> 0, longitude |-> 0, raw |-> Nothing] }

\* geocode_rows: the entry built for a CSV row before the provider is called
GeocodeEntry(r, now) ==
    [key |-> make_key(r), year |-> r.Year, city |-> r.City, country |-> r.Country,
     query |-> Query(r.City, r.Country), lat |-> Nothing, lon |-> Nothing,
     provider |-> "nominatim", status |-> "not_found", timestamp |-> now, raw |-> Nothing]

\* mutant of Resolve: a Location sets the status and not the coordinates
ResolveStatusOnly(entry, answer) ==
    IF answer.kind = "location" THEN [entry EXCEPT !.status = "ok"]
    ELSE [entry EXCEPT !.status = "not_found"]

\* geocode_rows: the try block around loc = geocode(query)
Resolve(entry, answer) ==
    IF answer.kind = "location"
    THEN [entry EXCEPT !.lat = Some(answer.latitude), !.lon = Some(answer.longitude),
                       !.status = "ok", !.raw = answer.raw]
    ELSE IF answer.kind = "none" THEN [entry EXCEPT !.status = "not_found"]
    ELSE [f \in DOMAIN entry \cup {"error"} |->
            IF f = "error" THEN "exception" ELSE IF f = "status" THEN "error" ELSE entry[f]]

\* mutant of KeyInCache: only a resolved entry counts as cached
KeyInCacheResolved(key, c) == DictHas(c, key) /\ DictGet(c, key).status = "ok"

\* geocode_rows: 'if key in cache'
KeyInCache(key, c) == DictHas(c, key)

\* mutant of BootstrapHas: the test of the key is lost
BootstrapHasNever(key, c) == FALSE

\* bootstrap: 'if key in cache'
BootstrapHas(key, c) == DictHas(c, key)

\* mutant of Checkpoint: no save inside the loop
CheckpointSkipped(f, c) == f

\* geocode_rows: 'save cache incrementally so we can resume safely'
Checkpoint(f, c) == save_cache(c)

\* mutant of BootstrapEntry: the placeholder has the status of geocode_rows' template
BootstrapEntryNotFound(r, now) ==
    [key |-> make_key(r), year |-> Strip(r.Year), city |-> Strip(r.City), country |-> Strip(r.Country),
     query |-> Query(Strip(r.City), Strip(r.Country)), lat |-> Nothing, lon |-> Nothing,
     provider |-> "nominatim", status |-> "not_found", timestamp |-> now, raw |-> Nothing]

\* bootstrap: the placeholder entry of a CSV row
BootstrapEntry(r, now) ==
    [key |-> make_key(r), year |-> Strip(r.Year), city |-> Strip(r.City), country |-> Strip(r.Country),
     query |-> Query(Strip(r.City), Strip(r.Country)), lat |-> Nothing, lon |-> Nothing,
     provider |-> "nominatim", status |-> "pending", timestamp |-> now, raw |-> Nothing]

RECURSIVE BootstrapLoop(_, _, _, _)
\* bootstrap: the loop over the CSV rows; the cache and the count 'added'
BootstrapLoop(rs, c, added, now) ==
    IF Len(rs) = 0 THEN [cache |-> c, added |-> added]
    ELSE IF BootstrapHas(make_key(Head(rs)), c) THEN BootstrapLoop(Tail(rs), c, added, now)
    ELSE BootstrapLoop(Tail(rs), DictSet(c, make_key(Head(rs)), BootstrapEntry(Head(rs), now)),
                       added + 1, now)

\* mutant of AfterCall: an exception of the provider call is not caught
AfterCallUncaught(answer) == IF answer.kind = "raise" THEN "stopped" ELSE "loop"

\* geocode_rows: where the run is after the try block: 'except Exception' catches what
\* the call raises, so the loop goes on whatever the answer
AfterCall(answer) == "loop"

\* geocode_rows: the fieldnames of the CSV summary
SummaryRow(item) ==
    [key |-> item.key, year |-> item.year, city |-> item.city, country |-> item.country,
     query |-> item.query, lat |-> item.lat, lon |-> item.lon, provider |-> item.provider,
     status |-> item.status, timestamp |-> item.timestamp]

\* geocode_rows: one summary row per cache entry
SummaryRows(c) == [i \in 1..Len(c) |-> SummaryRow(c[i][2])]

\* the rows of data/olympic_host_cities_normalized_clean.csv (Year, City, Country columns)
GeoCsvRows ==
    { [Year |-> <<"1", "9", "0", "0">>, City |-> <<"P", "a", "r", "i", "s">>, Country |-> <<"F", "R">>],
      [Year |-> <<"1", "9", "0", "0">>, City |-> <<" ", "P", "a", "r", "i", "s">>, Country |-> <<"F", "R">>],
      [Year |-> <<"1", "8", "9", "6">>, City |-> <<"A", "t", "h", "e", "n", "s">>, Country |-> <<>>],
      [Year |-> <<"1", "9", "0", "4">>, City |-> <<>>, Country |-> <<>>] }

CsvInputs == UNION {[1..n -> GeoCsvRows] : n \in 0..MaxCsv}

(***************************************************************************)
(* Specification SpecGeo: runs of bootstrap() and geocode_rows(), one      *)
(* after the other, on one input CSV and one cache file that is missing    *)
(* before the first run.  geocode_rows may be interrupted between two      *)
(* file operations.                                                        *)
(***************************************************************************)
InitGeo ==
    /\ script = "cache" /\ pc = "off"
    /\ rows = <<>> /\ cleaned = <<>> /\ source = <<>> /\ kept = <<>>
    /\ fn = "none" /\ txt = <<>> /\ prev = <<>> /\ applied = 0
    /\ prog = "none" /\ gpc = "off" /\ pos = 0
    /\ csv \in CsvInputs
    /\ cache = <<>>
    /\ disk = NoFile
    /\ called = <<>> /\ atLoad = <<>>
    /\ summary = <<>> /\ runs = 0
    /\ table = {} /\ incoming = <<>> /\ loads = 0

\* no script is running
Idle == gpc \in {"off", "done", "stopped"}

\* bootstrap(): the whole run
Bootstrap ==
    /\ script = "cache"
    /\ Idle
    /\ runs < MaxRuns
    /\ WellFormed(disk) \/ ~disk.exists
    /\ LET res == BootstrapLoop(csv, load_cache(disk), 0, runs + 1)
       IN  /\ atLoad' = load_cache(disk)
           /\ cache' = res.cache
           /\ disk' = IF res.added > 0 THEN save_cache(res.cache) ELSE disk
    /\ pos' = Len(csv) + 1
    /\ prog' = "bootstrap"
    /\ gpc' = "done"
    /\ called' = <<>>
    /\ runs' = runs + 1
    /\ UNCHANGED <<csv, summary>>
    /\ UNCHANGED notGeo

\* geocode_rows: cache = load_cache(CACHE_JSON), open the CSV
GeocodeStart ==
    /\ script = "cache"
    /\ Idle
    /\ runs < MaxRuns
    /\ WellFormed(disk) \/ ~disk.exists
    /\ prog' = "geocode"
    /\ gpc' = "loop"
    /\ pos' = 1
    /\ cache' = load_cache(disk)
    /\ atLoad' = load_cache(disk)
    /\ called' = <<>>
    /\ runs' = runs + 1
    /\ UNCHANGED <<csv, disk, summary>>
    /\ UNCHANGED notGeo

\* geocode_rows: the row's key is in the cache, 'continue'
GeocodeSkip ==
    /\ gpc = "loop" /\ pos <= Len(csv)
    /\ KeyInCache(make_key(csv[pos]), cache)
    /\ pos' = pos + 1
    /\ UNCHANGED <<prog, gpc, csv, cache, disk, called, atLoad, summary, runs>>
    /\ UNCHANGED notGeo

\* geocode_rows: the row has no query, the entry is cached with status no_query
GeocodeNoQuery ==
    /\ gpc = "loop" /\ pos <= Len(csv)
    /\ ~KeyInCache(make_key(csv[pos]), cache)
    /\ Len(GeocodeEntry(csv[pos], runs).query) = 0
    /\ cache' = DictSet(cache, make_key(csv[pos]),
                        [GeocodeEntry(csv[pos], runs) EXCEPT !.status = "no_query"])
    /\ pos' = pos + 1
    /\ UNCHANGED <<prog, gpc, csv, disk, called, atLoad, summary, runs>>
    /\ UNCHANGED notGeo

\* geocode_rows: loc = geocode(query) is called and blocks
GeocodeCall ==
    /\ gpc = "loop" /\ pos <= Len(csv)
    /\ ~KeyInCache(make_key(csv[pos]), cache)
    /\ Len(GeocodeEntry(csv[pos], runs).query) > 0
    /\ called' = Append(called, [key |-> make_key(csv[pos]), query |-> GeocodeEntry(csv[pos], runs).query])
    /\ gpc' = "calling"
    /\ UNCHANGED <<prog, csv, pos, cache, disk, atLoad, summary, runs>>
    /\ UNCHANGED notGeo

\* geocode_rows: the call returns or raises; the entry is cached and the cache saved
GeocodeReturn ==
    /\ gpc = "calling"
    /\ \E answer \in Answers :
        /\ cache' = DictSet(cache, make_key(csv[pos]), Resolve(GeocodeEntry(csv[pos], runs), answer))
        /\ gpc' = AfterCall(answer)
    /\ disk' = Checkpoint(disk, cache')
    /\ pos' = pos + 1
    /\ UNCHANGED <<prog, csv, called, atLoad, summary, runs>>
    /\ UNCHANGED notGeo

\* geocode_rows: after the loop, the final save and the CSV summary
GeocodeFinish ==
    /\ gpc = "loop" /\ pos > Len(csv)
    /\ disk' = save_cache(cache)
    /\ summary' = SummaryRows(cache)
    /\ gpc' = "done"
    /\ UNCHANGED <<prog, csv, pos, cache, called, atLoad, runs>>
    /\ UNCHANGED notGeo

\* geocode_rows is interrupted (signal, kill) in the loop or during the provider call
Interrupt ==
    /\ gpc \in {"loop", "calling"}
    /\ gpc' = "stopped"
    /\ UNCHANGED <<prog, csv, pos, cache, disk, called, atLoad, summary, runs>>
    /\ UNCHANGED notGeo

NextGeo ==
    \/ Bootstrap
    \/ GeocodeStart
    \/ GeocodeSkip
    \/ GeocodeNoQuery
    \/ GeocodeCall
    \/ GeocodeReturn
    \/ GeocodeFinish
    \/ Interrupt

SpecGeo == InitGeo /\ [][NextGeo]_vars

\* the steps of a running geocode_rows
GeocodeStep ==
    GeocodeSkip \/ GeocodeNoQuery \/ GeocodeCall \/ GeocodeReturn \/ GeocodeFinish

\* SpecGeo where a running geocode_rows goes on: the interpreter executes the next
\* statement and the provider call returns or raises (the RateLimiter retries at most
\* max_retries times)
SpecGeoLive == SpecGeo /\ WF_vars(GeocodeStep)

(***************************************************************************)
(* Specification SpecSave: one call save_cache(CACHE_JSON, cache) of       *)
(* geocode_hosts.py or bootstrap_geocoded_json.py, step by step:           *)
(* open(path, "w") truncates the file, json.dump writes the document       *)
(* piece by piece, leaving the with block closes the file.  The process    *)
(* can crash at each point.                                                *)
(***************************************************************************)
\* a cache the scripts can have loaded, and the cache they save after a run on the CSV
SaveInputs ==
    { [old |-> BootstrapLoop(c1, <<>>, 0, 1).cache,
       new |-> BootstrapLoop(c2, BootstrapLoop(c1, <<>>, 0, 1).cache, 0, 2).cache] :
           c1 \in CsvInputs, c2 \in CsvInputs }

InitSave ==
    /\ script = "cache" /\ pc = "off"
    /\ rows = <<>> /\ cleaned = <<>> /\ source = <<>> /\ kept = <<>>
    /\ fn = "none" /\ txt = <<>> /\ prev = <<>> /\ applied = 0
    /\ prog \in {"bootstrap", "geocode"}
    /\ gpc = "save"
    /\ \E io \in SaveInputs :
        /\ atLoad = io.old
        /\ cache = io.new
        /\ disk \in {save_cache(io.old)} \cup (IF io.old = <<>> THEN {NoFile} ELSE {})
    /\ csv = <<>> /\ pos = 0 /\ called = <<>> /\ summary = <<>> /\ runs = 0
    /\ table = {} /\ incoming = <<>> /\ loads = 0

\* save_cache: open(path, "w", encoding="utf-8") creates or truncates the file
SaveOpen ==
    /\ gpc = "save"
    /\ disk' = [exists |-> TRUE, opened |-> FALSE, members |-> <<>>, closed |-> FALSE]
    /\ gpc' = "dump"
    /\ UNCHANGED <<prog, csv, pos, cache, called, atLoad, summary, runs>>
    /\ UNCHANGED notGeo

\* save_cache: json.dump writes the opening brace and the next member of the mapping
SaveDump ==
    /\ gpc = "dump"
    /\ pos < Len(cache)
    /\ disk' = [disk EXCEPT !.opened = TRUE, !.members = Append(disk.members, cache[pos + 1])]
    /\ pos' = pos + 1
    /\ UNCHANGED <<prog, gpc, csv, cache, called, atLoad, summary, runs>>
    /\ UNCHANGED notGeo

\* save_cache: json.dump writes the closing brace, the with block closes the file
SaveClose ==
    /\ gpc = "dump"
    /\ pos = Len(cache)
    /\ disk' = [disk EXCEPT !.opened = TRUE, !.closed = TRUE]
    /\ gpc' = "saved"
    /\ UNCHANGED <<prog, csv, pos, cache, called, atLoad, summary, runs>>
    /\ UNCHANGED notGeo

\* the process dies (kill, power loss, exception inside json.dump)
Crash ==
    /\ gpc \in {"save", "dump"}
    /\ gpc' = "crashed"
    /\ UNCHANGED <<prog, csv, pos, cache, disk, called, atLoad, summary, runs>>
    /\ UNCHANGED notGeo

NextSave == SaveOpen \/ SaveDump \/ SaveClose \/ Crash

SpecSave == InitSave /\ [][NextSave]_vars

(***************************************************************************)
(* build_geocoded_db.py: merge of the clean CSV and the cache into the     *)
(* table geocoded_hosts.                                                   *)
(*                                                                         *)
(* A table is the set of its rows; NULL is Nothing, a value x of a column  *)
(* that can be NULL is Some(x).  Of the columns, notes, source_table,      *)
(* raw_source, raw_cache_json, created_at and updated_at are left out.     *)
(***************************************************************************)
\* 'for k, v in cache.items(): if ...: return k, v': the first of the matching
\* positions, 0 when the loop ends without a match
FirstItem(matching) ==
    IF matching = {} THEN 0 ELSE CHOOSE i \in matching : \A j \in matching : i <= j

\* str(x).strip().lower()
Fold(s) == Lower(Strip(s))

\* find_cache_entry: 'Try exact composite key'
ExactTier(c, year, city, country) ==
    LET key == year \o <<"|">> \o city \o <<"|">> \o country
    IN  IF DictHas(c, key) THEN Some(<<key, DictGet(c, key)>>) ELSE Nothing

\* find_cache_entry: 'Try case-insensitive search for year+city'
YearCityTier(c, year, city) ==
    LET i == FirstItem({k \in 1..Len(c) :
                            Fold(c[k][2].year) = Fold(year) /\ Fold(c[k][2].city) = Fold(city)})
    IN  IF i > 0 THEN Some(c[i]) ELSE Nothing

\* find_cache_entry: 'Try match by city only (fallback)'
CityTier(c, city) ==
    LET i == FirstItem({k \in 1..Len(c) : Fold(c[k][2].city) = Fold(city)})
    IN  IF i > 0 THEN Some(c[i]) ELSE Nothing

\* find_cache_entry: Some(<<key, entry>>), or Nothing for (None, None)
find_cache_entry(c, year, city, country) ==
    IF ExactTier(c, year, city, country) # Nothing THEN ExactTier(c, year, city, country)
    ELSE IF YearCityTier(c, year, city) # Nothing THEN YearCityTier(c, year, city)
    ELSE CityTier(c, city)

\* main of build_geocoded_db.py: the record built for a CSV row
MergeRec(r, c) ==
    LET year == Strip(r.Year)
        city == Strip(r.City)
        country == Strip(r.Country)
        found == find_cache_entry(c, year, city, country)
    IN  IF found # Nothing
        THEN [year |-> year, city |-> city, country |-> country, season |-> Strip(r.Season),
              lat |-> found[1][2].lat, lon |-> found[1][2].lon,
              geocode_status |-> Some(found[1][2].status),
              geocode_provider |-> Some(found[1][2].provider),
              geocode_ts |-> Some(found[1][2].timestamp),
              address |-> IF found[1][2].raw # Nothing
                          THEN Some(found[1][2].raw[1].display_name) ELSE Nothing,
              cache_key |-> Some(found[1][1])]
        ELSE [year |-> year, city |-> city, country |-> country, season |-> Strip(r.Season),
              lat |-> Nothing, lon |-> Nothing, geocode_status |-> Nothing,
              geocode_provider |-> Nothing, geocode_ts |-> Nothing, address |-> Nothing,
              cache_key |-> Nothing]

\* id INTEGER PRIMARY KEY: the rowid SQLite gives to a new row
NextId(tbl) == IF tbl = {} THEN 1 ELSE (CHOOSE m \in {r.id : r \in tbl} : \A r \in tbl : r.id <= m) + 1

\* mutant of Coalesce: the incoming value is stored as it is
CoalesceExcluded(excluded, stored) == excluded

\* COALESCE(excluded.x, geocoded_hosts.x)
Coalesce(excluded, stored) == IF excluded # Nothing THEN excluded ELSE stored

\* upsert, DO UPDATE SET: the stored row after a conflict on (year, city, country)
Updated(row, rec) ==
    [row EXCEPT !.season = rec.season,
                !.lat = Coalesce(rec.lat, row.lat),
                !.lon = Coalesce(rec.lon, row.lon),
                !.geocode_status = Coalesce(rec.geocode_status, row.geocode_status),
                !.geocode_provider = Coalesce(rec.geocode_provider, row.geocode_provider),
                !.geocode_ts = Coalesce(rec.geocode_ts, row.geocode_ts),
                !.address = Coalesce(rec.address, row.address),
                !.cache_key = Coalesce(rec.cache_key, row.cache_key)]

\* upsert: INSERT ... ON CONFLICT(year, city, country) DO UPDATE SET ...
upsert(tbl, rec) ==
    LET hit == {row \in tbl : row.year = rec.year /\ row.city = rec.city /\ row.country = rec.country}
    IN  IF hit = {}
        THEN tbl \cup {[f \in DOMAIN rec \cup {"id"} |-> IF f = "id" THEN NextId(tbl) ELSE rec[f]]}
        ELSE (tbl \ hit) \cup {Updated(row, rec) : row \in hit}

\* the data rows of the clean CSV (Year, City, Country, Season columns)
MergeCsvRows ==
    { [Year |-> <<"1", "9", "0", "0">>, City |-> <<"P", "a", "r", "i", "s">>, Country |-> <<"F", "R">>, Season |-> <<"S", "u", "m", "m", "e", "r">>],
      [Year |-> <<"1", "9", "0", "0">>, City |-> <<"p", "a", "r", "i", "s">>, Country |-> <<>>, Season |-> <<"W", "i", "n", "t", "e", "r">>] }

\* entries geocode_rows and bootstrap write for the rows of the CSV
CacheEntries ==
    {Resolve(GeocodeEntry(r, 1), a) : r \in MergeCsvRows, a \in Answers}
        \cup {BootstrapEntry(r, 2) : r \in MergeCsvRows}

\* the mappings data/geocoded_hosts.json can hold: up to two entries, keyed by their key
MergeCaches ==
    {<<>>} \cup {<<<<e.key, e>>>> : e \in CacheEntries}
        \cup {<<<<p[1].key, p[1]>>, <<p[2].key, p[2]>>>> :
                p \in {q \in CacheEntries \X CacheEntries : q[1].key # q[2].key}}

\* the records main can build for a CSV row: one per row and cache
MergeRecs == {MergeRec(r, c) : r \in MergeCsvRows, c \in MergeCaches}

(***************************************************************************)
(* Specification SpecMerge: the upsert calls of runs of                    *)
(* build_geocoded_db.py, one after the other, on the same database; the    *)
(* CSV and the cache file can differ from one run to the next.             *)
(***************************************************************************)
InitMerge ==
    /\ script = "merge" /\ pc = "off"
    /\ rows = <<>> /\ cleaned = <<>> /\ source = <<>> /\ kept = <<>>
    /\ fn = "none" /\ txt = <<>> /\ prev = <<>> /\ applied = 0
    /\ prog = "none" /\ gpc = "off" /\ pos = 0 /\ csv = <<>>
    /\ cache = <<>> /\ disk = NoFile /\ called = <<>> /\ atLoad = <<>>
    /\ summary = <<>> /\ runs = 0
    /\ table = {} /\ incoming = <<>> /\ loads = 0

\* main of build_geocoded_db.py, one iteration of 'for r in rows': the cache entry is
\* looked up, the record built, and upsert inserts or updates the row and commits
MergeRow ==
    /\ script = "merge"
    /\ loads < MaxUpserts
    /\ \E rec \in MergeRecs :
        /\ table' = upsert(table, rec)
        /\ incoming' = <<rec>>
    /\ loads' = loads + 1
    /\ UNCHANGED <<rowVars, geoVars>>

NextMerge == MergeRow

SpecMerge == InitMerge /\ [][NextMerge]_vars

(***************************************************************************)
(* json_to_sqlite.py (table geocoded_hosts) and                            *)
(* json_geocoded_to_sqlite.py (table olympics_geocoded).                   *)
(***************************************************************************)
\* rec.get(f) of a JSON object: None when the object has no member f
Get(rec, f) == IF f \in DOMAIN rec THEN rec[f] ELSE Nothing

\* 'x or None' for a text member: an absent or empty text is NULL
TextOrNone(v) == IF v = <<>> THEN Nothing ELSE Some(v)

\* 'x or None' for a member the cache scripts always fill when it is there
MemberOrNone(rec, f) == IF f \in DOMAIN rec THEN Some(rec[f]) ELSE Nothing

\* upsert_record: the values bound to the INSERT statement
RecordColumns(rec) ==
    [year |-> TextOrNone(Get(rec, "year")), city |-> TextOrNone(Get(rec, "city")),
     country |-> TextOrNone(Get(rec, "country")), lat |-> Get(rec, "lat"), lon |-> Get(rec, "lon"),
     geocode_provider |-> MemberOrNone(rec, "provider"),
     geocode_status |-> MemberOrNone(rec, "status"),
     geocode_ts |-> MemberOrNone(rec, "timestamp"),
     address |-> TextOrNone(Get(rec, "address"))]

\* the unique index on (year, city, country): NULL is equal to nothing
SameKey(a, b) ==
    /\ a.year # Nothing /\ a.city # Nothing /\ a.country # Nothing
    /\ a.year = b.year /\ a.city = b.city /\ a.country = b.country

\* upsert_record: INSERT ... ON CONFLICT(year, city, country) DO UPDATE SET x=excluded.x
upsert_record(tbl, rec) ==
    LET cols == RecordColumns(rec)
        hit == {row \in tbl : SameKey(row, cols)}
    IN  IF hit = {}
        THEN tbl \cup {[f \in DOMAIN cols \cup {"id"} |-> IF f = "id" THEN NextId(tbl) ELSE cols[f]]}
        ELSE (tbl \ hit) \cup {[f \in DOMAIN row |-> IF f = "id" THEN row.id ELSE cols[f]] : row \in hit}

\* the records main of json_to_sqlite.py passes to upsert_record: the members of a
\* list of cache entries, or the whole document when its root is a mapping
JsonRecords == CacheEntries \cup {[members |-> c] : c \in {<<>>} \cup {<<<<e.key, e>>>> : e \in CacheEntries}}

\* insert_rows: the tuple built for a record of olympics_games_geocoded.json
GeocodedColumns(rec) ==
    [year |-> Get(rec, "year"), city |-> MemberOrNone(rec, "city"),
     country |-> MemberOrNone(rec, "country"), season |-> MemberOrNone(rec, "season"),
     lat |-> Get(rec, "lat"), lon |-> Get(rec, "lon"),
     geocode_provider |-> MemberOrNone(rec, "geocode_provider")]

\* init_db: the NOT NULL columns of olympics_geocoded
NotNullColumns == {"year", "city", "country", "season", "lat", "lon"}

RECURSIVE ReplaceRows(_, _)
\* INSERT OR REPLACE, row by row: a row with the same primary key is deleted first
ReplaceRows(tbl, rs) ==
    IF Len(rs) = 0 THEN tbl
    ELSE ReplaceRows({row \in tbl : ~SameKey(row, Head(rs))} \cup {Head(rs)}, Tail(rs))

\* insert_rows: executemany and commit; a NULL in a NOT NULL column raises
\* IntegrityError before the commit and nothing is stored
insert_rows(tbl, records) ==
    LET rs == [i \in 1..Len(records) |-> GeocodedColumns(records[i][2])]
    IN  IF \E i \in 1..Len(rs) : \E f \in NotNullColumns : rs[i][f] = Nothing
        THEN tbl
        ELSE ReplaceRows(tbl, rs)

\* records csv_to_json_geocoded.py writes: matched (lat, lon) and unmatched (null) rows
GeocodedRecords ==
    { [year |-> Some(1900), city |-> <<"P", "a", "r", "i", "s">>, country |-> <<"F", "R">>, season |-> <<"S", "u", "m", "m", "e", "r">>,
       notes |-> <<>>, lat |-> Some(48), lon |-> Some(2), geocode_provider |-> <<"n", "o", "m", "i", "n", "a", "t", "i", "m">>],
      [year |-> Some(1900), city |-> <<"P", "a", "r", "i", "s">>, country |-> <<"F", "R">>, season |-> <<"S", "u", "m", "m", "e", "r">>,
       notes |-> <<>>, lat |-> Nothing, lon |-> Nothing, geocode_provider |-> <<>>],
      [year |-> Some(1896), city |-> <<"A", "t", "h", "e", "n", "s">>, country |-> <<"G", "R">>, season |-> <<"S", "u", "m", "m", "e", "r">>,
       notes |-> <<>>, lat |-> Some(37), lon |-> Some(23), geocode_provider |-> <<"n", "o", "m", "i", "n", "a", "t", "i", "m">>] }

\* the key csv_to_json_geocoded.py gives a record
GeocodedKey(rec) == <<rec.year, rec.city, rec.country>>

\* the documents data/olympics_games_geocoded.json can hold: up to two records
GeocodedDocs ==
    {<<>>} \cup {<<<<GeocodedKey(r), r>>>> : r \in GeocodedRecords}
        \cup {<<<<GeocodedKey(p[1]), p[1]>>, <<GeocodedKey(p[2]), p[2]>>>> :
                p \in {q \in GeocodedRecords \X GeocodedRecords : GeocodedKey(q[1]) # GeocodedKey(q[2])}}

(***************************************************************************)
(* Specification SpecSinks: calls of upsert_record, runs of main of         *)
(* json_to_sqlite.py on one cache file, or runs of                         *)
(* json_geocoded_to_sqlite.py, one after the other on one database.        *)
(***************************************************************************)
InitSinks ==
    /\ script \in {"upsert_record", "json_to_sqlite", "json_geocoded_to_sqlite"}
    /\ pc = "off"
    /\ rows = <<>> /\ cleaned = <<>> /\ source = <<>> /\ kept = <<>>
    /\ fn = "none" /\ txt = <<>> /\ prev = <<>> /\ applied = 0
    /\ prog = "none" /\ gpc = "off" /\ pos = 0 /\ csv = <<>>
    /\ cache = <<>> /\ called = <<>> /\ atLoad = <<>>
    /\ summary = <<>> /\ runs = 0
    /\ disk \in (IF script = "json_to_sqlite" THEN {save_cache(c) : c \in MergeCaches}
                 ELSE {NoFile})
    /\ table = {} /\ incoming = <<>> /\ loads = 0

\* a call of upsert_record of json_to_sqlite.py: the row is inserted or updated and
\* the change committed
UpsertRecord ==
    /\ script = "upsert_record"
    /\ loads < MaxUpserts
    /\ \E rec \in JsonRecords :
        /\ table' = upsert_record(table, rec)
        /\ incoming' = <<RecordColumns(rec)>>
    /\ loads' = loads + 1
    /\ UNCHANGED <<rowVars, geoVars>>

RECURSIVE UpsertRecords(_, _)
\* main of json_to_sqlite.py: 'for rec in data: upsert_record(conn, rec)'
UpsertRecords(tbl, data) ==
    IF Len(data) = 0 THEN tbl
    ELSE UpsertRecords(upsert_record(tbl, Head(data)), Tail(data))

\* main of json_to_sqlite.py: a root that is not a list is wrapped, 'data = [data]',
\* so the mapping save_cache wrote is the one record of the list
JsonData(f) == <<[members |-> f.members]>>

\* main of json_to_sqlite.py: load_json, ensure_schema, the loop of upsert_record
JsonMain ==
    /\ script = "json_to_sqlite"
    /\ loads < MaxUpserts
    /\ disk.exists /\ WellFormed(disk)
    /\ table' = UpsertRecords(table, JsonData(disk))
    /\ incoming' = [i \in 1..Len(JsonData(disk)) |-> RecordColumns(JsonData(disk)[i])]
    /\ loads' = loads + 1
    /\ UNCHANGED <<rowVars, geoVars>>

\* main of json_geocoded_to_sqlite.py: init_db, insert_rows, close
InsertRows ==
    /\ script = "json_geocoded_to_sqlite"
    /\ loads < MaxUpserts
    /\ \E doc \in GeocodedDocs :
        /\ table' = insert_rows(table, doc)
        /\ incoming' = [i \in 1..Len(doc) |-> GeocodedColumns(doc[i][2])]
    /\ loads' = loads + 1
    /\ UNCHANGED <<rowVars, geoVars>>

NextSinks == UpsertRecord \/ JsonMain \/ InsertRows

SpecSinks == InitSinks /\ [][NextSinks]_vars

(***************************************************************************)
(* augment_geocodes.py: the tiered lookup of a row's coordinates.          *)
(***************************************************************************)
\* s.replace(' ', '')
NoSpaces(s) == SelectSeq(s, LAMBDA ch : ch # " ")

\* f"{year}|{city}|{country}" of stripped fields
ExactKey(year, city, country) ==
    Strip(year) \o <<"|">> \o Strip(city) \o <<"|">> \o Strip(country)

\* f"{year}|{city.replace(' ', '')}|{country.replace(' ', '')}" of stripped fields
RelaxedKey(year, city, country) ==
    Strip(year) \o <<"|">> \o NoSpaces(Strip(city)) \o <<"|">> \o NoSpaces(Strip(country))

\* mutant of NormStep: the relaxed key is assigned like the exact key
NormStepAliasAssigned(norm, record) ==
    LET geo == <<record.lat, record.lon, record.provider>>
        exact == ExactKey(record.year, record.city, record.country)
        relaxed == RelaxedKey(record.year, record.city, record.country)
    IN  DictSet(DictSet(norm, exact, geo), relaxed, geo)

\* load_geocode_cache, one iteration of 'for key, record in data.items()': the exact
\* key is assigned, the relaxed key is set only when it is not there yet
NormStep(norm, record) ==
    LET geo == <<record.lat, record.lon, record.provider>>
        exact == ExactKey(record.year, record.city, record.country)
        relaxed == RelaxedKey(record.year, record.city, record.country)
        assigned == DictSet(norm, exact, geo)
    IN  IF DictHas(assigned, relaxed) THEN assigned ELSE DictSet(assigned, relaxed, geo)

RECURSIVE NormLoop(_, _)
\* load_geocode_cache: the loop over the items of the JSON mapping
NormLoop(data, norm) ==
    IF Len(data) = 0 THEN norm ELSE NormLoop(Tail(data), NormStep(norm, Head(data)[2]))

\* load_geocode_cache: key -> (lat, lon, provider)
load_geocode_cache(data) == NormLoop(data, <<>>)

\* build_row_key: (key_exact, key_relaxed) of a CSV row
build_row_key(row) ==
    <<ExactKey(row.Year, row.City, row.Country), RelaxedKey(row.Year, row.City, row.Country)>>

\* dict.get(key): Some(value), or Nothing for None
CacheGet(norm, key) == IF DictHas(norm, key) THEN Some(DictGet(norm, key)) ELSE Nothing

\* augment: 'cache.get(key_exact) or cache.get(key_relaxed)'; a tuple of three is true
Lookup(norm, keys) ==
    IF CacheGet(norm, keys[1]) # Nothing THEN CacheGet(norm, keys[1]) ELSE CacheGet(norm, keys[2])

\* augment, one iteration of 'for row in reader': the row with lat, lon, geocode_provider
AugmentedRow(row, norm) ==
    LET geo == Lookup(norm, build_row_key(row))
        found == geo # Nothing /\ geo[1][1] # Nothing /\ geo[1][2] # Nothing
    IN  [f \in DOMAIN row \cup {"lat", "lon", "geocode_provider"} |->
            IF f = "lat" THEN (IF found THEN geo[1][1] ELSE <<>>)
            ELSE IF f = "lon" THEN (IF found THEN geo[1][2] ELSE <<>>)
            ELSE IF f = "geocode_provider" THEN (IF found THEN geo[1][3] ELSE <<>>)
            ELSE row[f]]

RECURSIVE UpsertAll(_, _)
\* main of build_geocoded_db.py: 'for r in rows: ... upsert(conn, rec)'
UpsertAll(tbl, recs) ==
    IF Len(recs) = 0 THEN tbl ELSE UpsertAll(upsert(tbl, Head(recs)), Tail(recs))

\* str(x) of a float with a whole value, as csv.DictWriter writes it: '48.0', '-74.0'
FloatText(x) ==
    (IF x < 0 THEN <<"-">> \o StrOfInt(0 - x) ELSE StrOfInt(x)) \o <<".", "0">>

\* float(s) of such a text
ParseFloat(s) ==
    LET digits == SelectSeq(SubSeq(s, 1, Len(s) - 2), LAMBDA ch : ch # "-")
    IN  IF Len(s) > 0 /\ s[1] = "-" THEN 0 - IntOfStr(digits) ELSE IntOfStr(digits)

\* augment, writer.writerow(r): the cells of lat and lon in olympics_games_geocoded.csv
WrittenRow(row) ==
    [f \in DOMAIN row |->
        IF f \in {"lat", "lon"} /\ row[f] # <<>> THEN FloatText(row[f][1]) ELSE row[f]]

\* csv_to_json_geocoded.main: the key "|".join(r[k] for k in KEY_FIELDS)
JoinedKey(r) == r.Year \o <<"|">> \o r.City \o <<"|">> \o r.Country

\* csv_to_json_geocoded.main: the record of a CSV row; an empty lat or lon is null and a
\* Year that is not all digits is null
JsonRecord(r) ==
    [year |-> IF IsDigitStr(r.Year) THEN Some(IntOfStr(r.Year)) ELSE Nothing,
     city |-> r.City, country |-> r.Country, season |-> r.Season,
     notes |-> Get(r, "Notes"),
     lat |-> IF Get(r, "lat") = <<>> THEN Nothing ELSE Some(ParseFloat(r.lat)),
     lon |-> IF Get(r, "lon") = <<>> THEN Nothing ELSE Some(ParseFloat(r.lon)),
     geocode_provider |-> Get(r, "geocode_provider")]

RECURSIVE JsonOut(_, _)
\* csv_to_json_geocoded.main: 'for r in rows: ... out[key] = {...}'
JsonOut(rs, out) ==
    IF Len(rs) = 0 THEN out
    ELSE JsonOut(Tail(rs), DictSet(out, JoinedKey(Head(rs)), JsonRecord(Head(rs))))

\* rows of the CSVs: a city written with a space, without it, in lower case, with the
\* space at another place, and in another year
LookupCsvRows ==
    { [Year |-> <<"1", "9", "0", "4">>, City |-> <<"S", "t", " ", "L">>, Country |-> <<"U", "S">>, Season |-> <<"S", "u", "m", "m", "e", "r">>],
      [Year |-> <<"1", "9", "0", "4">>, City |-> <<"S", "t", "L">>, Country |-> <<"U", "S">>, Season |-> <<"S", "u", "m", "m", "e", "r">>],
      [Year |-> <<"1", "9", "0", "4">>, City |-> <<"s", "t", " ", "l">>, Country |-> <<"U", "S">>, Season |-> <<"S", "u", "m", "m", "e", "r">>],
      [Year |-> <<"1", "9", "0", "4">>, City |-> <<"S", " ", "t", "L">>, Country |-> <<"U", "S">>, Season |-> <<"S", "u", "m", "m", "e", "r">>],
      [Year |-> <<"1", "9", "0", "0">>, City |-> <<"S", "t", " ", "L">>, Country |-> <<"F", "R">>, Season |-> <<"S", "u", "m", "m", "e", "r">>] }

\* entries of the cache for these rows: resolved by geocode_rows, or pending from bootstrap
LookupEntries ==
    {Resolve(GeocodeEntry(r, 1), a) : r \in LookupCsvRows, a \in {b \in Answers : b.kind = "location"}}
        \cup {BootstrapEntry(r, 2) : r \in LookupCsvRows}

\* the mappings data/geocoded_hosts.json can hold: up to two entries, keyed by their key
LookupCaches ==
    {<<>>} \cup {<<<<e.key, e>>>> : e \in LookupEntries}
        \cup {<<<<p[1].key, p[1]>>, <<p[2].key, p[2]>>>> :
                p \in {q \in LookupEntries \X LookupEntries : q[1].key # q[2].key}}

\* the input CSVs: up to MaxCsv rows
LookupCsvs == UNION {[1..n -> LookupCsvRows] : n \in 0..MaxCsv}

(***************************************************************************)
(* Specification SpecLookup: one run of augment_geocodes.py or of          *)
(* build_geocoded_db.py on a cache file and a CSV; summary holds the rows  *)
(* the run gives coordinates to.                                           *)
(* After augment_geocodes.py the export goes on with                      *)
(* csv_to_json_geocoded.py and json_geocoded_to_sqlite.py.                 *)
(***************************************************************************)
InitLookup ==
    /\ script \in {"augment_geocodes", "build_geocoded_db"}
    /\ pc = "off"
    /\ rows = <<>> /\ cleaned = <<>> /\ source = <<>> /\ kept = <<>>
    /\ fn = "none" /\ txt = <<>> /\ prev = <<>> /\ applied = 0
    /\ prog = "none" /\ gpc = "off" /\ pos = 0
    /\ csv \in LookupCsvs
    /\ cache \in LookupCaches
    /\ disk = save_cache(cache) /\ called = <<>> /\ atLoad = <<>>
    /\ summary = <<>> /\ runs = 0
    /\ table = {} /\ incoming = <<>> /\ loads = 0

\* augment: the cache is loaded and every row of the CSV is given lat, lon and
\* geocode_provider
Augment ==
    /\ script = "augment_geocodes"
    /\ gpc = "off"
    /\ summary' = [i \in 1..Len(csv) |-> AugmentedRow(csv[i], load_geocode_cache(cache))]
    /\ gpc' = "done"
    /\ UNCHANGED <<prog, csv, pos, cache, disk, called, atLoad, runs, rowVars, dbVars>>

\* main of build_geocoded_db.py: for every row of the CSV the cache entry is looked
\* up, the record is built and upserted
MergeRun ==
    /\ script = "build_geocoded_db"
    /\ gpc = "off"
    /\ summary' = [i \in 1..Len(csv) |-> MergeRec(csv[i], cache)]
    /\ table' = UpsertAll(table, summary')
    /\ incoming' = summary'
    /\ loads' = loads + Len(csv)
    /\ gpc' = "done"
    /\ UNCHANGED <<prog, csv, pos, cache, disk, called, atLoad, runs, rowVars>>

\* main of csv_to_json_geocoded.py on the CSV augment wrote: incoming holds the mapping
\* written to olympics_games_geocoded.json
CsvToJson ==
    /\ script = "augment_geocodes"
    /\ gpc = "done"
    /\ incoming' = JsonOut([i \in 1..Len(summary) |-> WrittenRow(summary[i])], <<>>)
    /\ gpc' = "json"
    /\ UNCHANGED <<prog, csv, pos, cache, disk, called, atLoad, summary, runs, table, loads, rowVars>>

\* main of json_geocoded_to_sqlite.py on that mapping: init_db, insert_rows, close
LoadGeocoded ==
    /\ script = "augment_geocodes"
    /\ gpc = "json"
    /\ table' = insert_rows(table, incoming)
    /\ loads' = loads + 1
    /\ gpc' = "loaded"
    /\ UNCHANGED <<prog, csv, pos, cache, disk, called, atLoad, summary, runs, incoming, rowVars>>

NextLookup == Augment \/ MergeRun \/ CsvToJson \/ LoadGeocoded

SpecLookup == InitLookup /\ [][NextLookup]_vars

(***************************************************************************)
(* Specification SpecRow: extract_row_normalized applied to one <tr>.      *)
(* txt holds the row (cells and caption), then the record built from it;   *)
(* prev holds the row after the call.                                      *)
(***************************************************************************)
\* the cells a <tr> is built from: linked and unlinked text, a footnote marker, a
\* year, an empty cell
RowCells ==
    { Cell(<<"P", "a", "r", "i", "s">>, TRUE), Cell(<<"P", "a", "r", "i", "s">>, FALSE), Cell(<<"P", "a", "r", "i", "s", "[", "a", "]">>, TRUE),
      Cell(<<"F", "R", "A">>, FALSE), Cell(<<"1", "9", "0", "0">>, FALSE), Cell(<<>>, FALSE) }

\* the <tr> rows: up to MaxCells cells under a caption
RowInputs ==
    {[cells |-> c, caption |-> cap] :
        c \in UNION {[1..n -> RowCells] : n \in 1..MaxCells},
        cap \in {<<>>, <<"S", "u", "m", "m", "e", "r", " ", "G", "a", "m", "e", "s">>}}

InitRow ==
    /\ script = "row" /\ pc = "off"
    /\ rows = <<>> /\ cleaned = <<>> /\ source = <<>> /\ kept = <<>>
    /\ fn = "extract_row_normalized"
    /\ txt \in RowInputs
    /\ prev = <<>> /\ applied = 0
    /\ StoresOff

\* parse_and_normalize: norm = extract_row_normalized(row_cells, caption)
ExtractRow ==
    /\ script = "row"
    /\ applied = 0
    /\ prev' = txt
    /\ txt' = extract_row_normalized(txt.cells, txt.caption)
    /\ applied' = 1
    /\ UNCHANGED <<script, pc, rows, cleaned, source, kept, fn>>
    /\ UNCHANGED storeVars

NextRow == ExtractRow

SpecRow == InitRow /\ [][NextRow]_vars

(***************************************************************************)
(* run_sql.py: split_statements.                                           *)
(***************************************************************************)
\* mutant of SplitStep: every semicolon ends a statement
SplitStepAnySemicolon(st, ch) ==
    IF ch = ";"
    THEN [st EXCEPT !.statements = IF Len(Strip(st.current)) > 0
                                   THEN Append(st.statements, Strip(st.current))
                                   ELSE st.statements,
                    !.current = <<>>]
    ELSE [st EXCEPT !.current = Append(st.current, ch)]

\* split_statements, one iteration of 'for ch in sql_text'
SplitStep(st, ch) ==
    LET in_single == IF ch = "'" /\ ~st.in_double THEN ~st.in_single ELSE st.in_single
        in_double == IF ch = "\"" /\ ~st.in_single THEN ~st.in_double ELSE st.in_double
        stmt == Strip(st.current)
    IN  IF ch = ";" /\ ~in_single /\ ~in_double
        THEN [statements |-> IF Len(stmt) > 0 THEN Append(st.statements, stmt) ELSE st.statements,
              current |-> <<>>, in_single |-> in_single, in_double |-> in_double]
        ELSE [statements |-> st.statements, current |-> Append(st.current, ch),
              in_single |-> in_single, in_double |-> in_double]

RECURSIVE SplitLoop(_, _)
\* split_statements: the loop over the characters
SplitLoop(text, st) ==
    IF Len(text) = 0 THEN st ELSE SplitLoop(Tail(text), SplitStep(st, Head(text)))

\* split_statements: the list of statements of a SQL text
split_statements(sql_text) ==
    LET st == SplitLoop(sql_text, [statements |-> <<>>, current |-> <<>>,
                                   in_single |-> FALSE, in_double |-> FALSE])
        tail == Strip(st.current)
    IN  IF Len(tail) > 0 THEN Append(st.statements, tail) ELSE st.statements

\* the characters of a SQL text: a letter, a blank, the semicolon and the two quotes
SqlChars == {"a", " ", ";", "'", "\""}

\* the SQL texts: up to MaxSql characters
SqlInputs == UNION {[1..n -> SqlChars] : n \in 0..MaxSql}

(***************************************************************************)
(* Specification SpecSql: split_statements applied to one SQL text.  txt   *)
(* holds the text, then the list of statements; prev holds the text after  *)
(* the call.                                                               *)
(***************************************************************************)
InitSql ==
    /\ script = "sql" /\ pc = "off"
    /\ rows = <<>> /\ cleaned = <<>> /\ source = <<>> /\ kept = <<>>
    /\ fn = "split_statements"
    /\ txt \in SqlInputs
    /\ prev = <<>> /\ applied = 0
    /\ StoresOff

\* main of run_sql.py: statements = split_statements(sql_text)
SplitSql ==
    /\ script = "sql"
    /\ applied = 0
    /\ prev' = txt
    /\ txt' = split_statements(txt)
    /\ applied' = 1
    /\ UNCHANGED <<script, pc, rows, cleaned, source, kept, fn>>
    /\ UNCHANGED storeVars

NextSql == SplitSql

SpecSql == InitSql /\ [][NextSql]_vars

(***************************************************************************)
(* populate_games_code.py and update_season.py on the table olympics of    *)
(* data/olympics.db (columns id, year, season, games_code; city, country   *)
(* and notes are left out).                                                *)
(***************************************************************************)
\* year GLOB '[0-9]*'
StartsWithDigit(year) == Len(year) > 0 /\ year[1] \in Digit

\* the rows of tmp_w: str(y) for y in sorted(WINTER_YEARS)
WinterYearTexts == {StrOfInt(y) : y \in WINTER_YEARS}

\* UPDATE olympics SET games_code = 'S' || year WHERE year GLOB '[0-9]*'
SummerCode(row) ==
    IF StartsWithDigit(row.year) THEN [row EXCEPT !.games_code = Some(<<"S">> \o row.year)]
    ELSE row

\* mutant of WinterCode: the Winter years are not overwritten
WinterCodeNever(row) == row

\* UPDATE olympics SET games_code = 'W' || year WHERE year IN (SELECT year FROM tmp_w)
WinterCode(row) ==
    IF row.year \in WinterYearTexts THEN [row EXCEPT !.games_code = Some(<<"W">> \o row.year)]
    ELSE row

\* populate_games_code.py: the two UPDATE statements, then the commit
populate_games_code(tbl) == {WinterCode(SummerCode(row)) : row \in tbl}

\* games_code LIKE 'S%': NULL matches nothing, letters match in either case
Like(code, letter) ==
    code # Nothing /\ Len(code[1]) > 0 /\ LowerChar(code[1][1]) = LowerChar(letter)

\* update_season: the two UPDATE statements, then the commit
update_season(tbl) ==
    LET summer(row) == IF Like(row.games_code, "S") THEN [row EXCEPT !.season = "Summer"] ELSE row
        winter(row) == IF Like(row.games_code, "W") THEN [row EXCEPT !.season = "Winter"] ELSE row
    IN  {winter(summer(row)) : row \in tbl}

\* the year texts of the rows build_db_from_scrape.py inserts: a year of both lists, a
\* Summer year, a Winter year, a year with a footnote, no year, a word
OlympicsYears == {<<"1", "9", "2", "4">>, <<"1", "8", "9", "6">>, <<"1", "9", "9", "4">>, <<"1", "9", "2", "4", "[", "a", "]">>, <<>>, <<"A", "t", "h", "e", "n", "s">>}

\* a row as build_db inserts it: the season is the label of its table and games_code,
\* a column that is added later, is NULL
OlympicsRow(id, year, season) ==
    [id |-> id, year |-> year, season |-> season, games_code |-> Nothing]

\* the tables build_db can leave: up to two rows
OlympicsTables ==
    {{}} \cup {{OlympicsRow(1, y, s)} : y \in OlympicsYears, s \in {"Summer", "Winter"}}
         \cup {{OlympicsRow(1, y[1], s[1]), OlympicsRow(2, y[2], s[2])} :
                 y \in OlympicsYears \X OlympicsYears,
                 s \in {"Summer", "Winter"} \X {"Summer", "Winter"}}

(***************************************************************************)
(* Specification SpecSeason: runs of populate_games_code.py and            *)
(* update_season.py, in any order, on a table build_db has made.           *)
(* incoming is the list of the scripts that have run.                      *)
(***************************************************************************)
InitSeason ==
    /\ script = "season" /\ pc = "off"
    /\ rows = <<>> /\ cleaned = <<>> /\ source = <<>> /\ kept = <<>>
    /\ fn = "none" /\ txt = <<>> /\ prev = <<>> /\ applied = 0
    /\ prog = "none" /\ gpc = "off" /\ pos = 0 /\ csv = <<>>
    /\ cache = <<>> /\ disk = NoFile /\ called = <<>> /\ atLoad = <<>>
    /\ summary = <<>> /\ runs = 0
    /\ table \in OlympicsTables
    /\ incoming = <<>> /\ loads = 0

\* populate_games_code.py, the __main__ block
PopulateGamesCode ==
    /\ script = "season"
    /\ loads < MaxScripts
    /\ table' = populate_games_code(table)
    /\ incoming' = Append(incoming, "populate_games_code")
    /\ loads' = loads + 1
    /\ UNCHANGED <<rowVars, geoVars>>

\* update_season.py, the __main__ block: ensure_columns, update_season
UpdateSeason ==
    /\ script = "season"
    /\ loads < MaxScripts
    /\ table' = update_season(table)
    /\ incoming' = Append(incoming, "update_season")
    /\ loads' = loads + 1
    /\ UNCHANGED <<rowVars, geoVars>>

NextSeason == PopulateGamesCode \/ UpdateSeason

SpecSeason == InitSeason /\ [][NextSeason]_vars

(***************************************************************************)
(* Properties.                                                             *)
(***************************************************************************)
Done == pc = "done"

RunNormalize == script = "normalize" /\ Done

RunHosts == script = "hosts" /\ Done

KnownYears == SUMMER_YEARS \cup WINTER_YEARS

\* the identity key of an output record of clean_rows, and of clean_hosts_full.main
CleanedKey(c) == <<IntOfStr(c.Year), c.Season, c.City>>

KeptKey(k) == <<k.year, k.season, k.city>>

\* the years of the records written by either script
OutputYears ==
    {IntOfStr(cleaned[i].Year) : i \in 1..Len(cleaned)} \cup {kept[i].year : i \in 1..Len(kept)}

\* the output record of clean_rows c was built from the normalized row r
BuiltFrom(c, r) == c.Raw = r.Raw /\ c.Source_table = r.Source_table

InCleaned(r) == \E i \in 1..Len(cleaned) : BuiltFrom(cleaned[i], r)

RECURSIVE SplitComma(_, _)
\* the pieces of s between its commas, cur being the piece read so far
SplitComma(s, cur) ==
    IF Len(s) = 0 THEN <<cur>>
    ELSE IF Head(s) = "," THEN <<cur>> \o SplitComma(Tail(s), <<>>)
    ELSE SplitComma(Tail(s), Append(cur, Head(s)))

(* s is '<count> (<year>, <year>, ...)': an integer, optional spaces, and a *)
(* parenthesized comma-separated list of two or more 4-digit years.         *)
IsCountYearList(s) ==
    /\ Len(s) >= 3
    /\ s[Len(s)] = ")"
    /\ \E p \in 2..(Len(s) - 1) :
        /\ s[p] = "("
        /\ IsDigitStr(RStrip(SubSeq(s, 1, p - 1), WhiteSpace))
        /\ LET items == SplitComma(Slice(s, p + 1, Len(s) - 1), <<>>)
           IN  /\ Len(items) >= 2
               /\ \A i \in 1..Len(items) :
                    Len(Strip(items[i])) = 4 /\ IsDigitStr(Strip(items[i]))

\* some cell of the raw text has that form
HasCountYearList(raw) ==
    \E i \in 1..Len(raw) : \E j \in i..Len(raw) : IsCountYearList(SubSeq(raw, i, j))

(* C1: the records written by clean_rows and by clean_hosts_full.main are  *)
(* pairwise distinct under the key (year, season, city), and every season  *)
(* is Summer or Winter.                                                    *)
C1_UniqueKeyKnownSeason ==
    Done =>
        /\ \A i, j \in 1..Len(cleaned) :
            i # j => CleanedKey(cleaned[i]) # CleanedKey(cleaned[j])
        /\ \A i \in 1..Len(cleaned) : cleaned[i].Season \in {"Summer", "Winter"}
        /\ \A i, j \in 1..Len(kept) : i # j => KeptKey(kept[i]) # KeptKey(kept[j])
        /\ \A i \in 1..Len(kept) : kept[i].season \in {"Summer", "Winter"}

\* C1 witness: clean_rows met two rows of one key and different countries, and wrote one
C1_Witness ==
    /\ RunNormalize
    /\ Len(rows) = 2
    /\ CleanRowsCandidate(rows[1]) # Nothing
    /\ CleanRowsCandidate(rows[2]) # Nothing
    /\ CleanRowsCandidate(rows[1])[1].key = CleanRowsCandidate(rows[2])[1].key
    /\ rows[1].Country # rows[2].Country
    /\ Len(cleaned) = 1

(* C2: every year written by clean_rows and by clean_hosts_full.main lies  *)
(* in 1896..FUTURE_CUTOFF.                                                 *)
C2_YearInRange ==
    Done => \A y \in OutputYears : 1896 <= y /\ y <= FUTURE_CUTOFF

(* C3, as stated: no record of a cancelled-Games year is written by        *)
(* clean_rows or by clean_hosts_full.main.                                 *)
C3_NoCancelledYear ==
    Done => OutputYears \cap CANCELLED_YEARS = {}

(* C3, amended: clean_hosts_full.main writes no record of a cancelled      *)
(* year; a record of a cancelled year written by clean_rows carries the    *)
(* notes "Cancelled due to war" and the upstream season of its row, which  *)
(* is Summer or Winter; a row of a cancelled year whose upstream season is *)
(* Other is not written.                                                   *)
C3_CancelledKeptWithNote ==
    Done =>
        /\ \A i \in 1..Len(kept) : kept[i].year \notin CANCELLED_YEARS
        /\ \A i \in 1..Len(cleaned) :
            IntOfStr(cleaned[i].Year) \in CANCELLED_YEARS =>
                /\ cleaned[i].Notes = <<"C", "a", "n", "c", "e", "l", "l", "e", "d", " ",
                                        "d", "u", "e", " ", "t", "o", " ", "w", "a", "r">>
                /\ cleaned[i].Season \in {"Summer", "Winter"}
                /\ \E j \in 1..Len(rows) :
                    BuiltFrom(cleaned[i], rows[j]) /\ rows[j].Season = cleaned[i].Season
        /\ \A j \in 1..Len(rows) :
            (/\ RowYear(rows[j]) # Nothing
             /\ RowYear(rows[j])[1] \in CANCELLED_YEARS
             /\ rows[j].Season = "Other") => ~InCleaned(rows[j])

\* C3 witness: clean_rows wrote a record of a cancelled year
C3_Witness ==
    /\ RunNormalize
    /\ \E i \in 1..Len(cleaned) : IntOfStr(cleaned[i].Year) \in CANCELLED_YEARS

(* C4: a table row with a cell '<count> (<year>, <year>, ...)' is not in   *)
(* the output of clean_rows.                                               *)
C4_SummaryRowNotInOutput ==
    RunNormalize =>
        \A j \in 1..Len(rows) : HasCountYearList(rows[j].Raw) => ~InCleaned(rows[j])

C7_CityNonEmpty ==
    Done =>
        /\ \A i \in 1..Len(cleaned) : Len(cleaned[i].City) > 0
        /\ \A i \in 1..Len(kept) : Len(kept[i].city) > 0

(* C8: each of the three cleaners is idempotent: applying it to its own    *)
(* output changes nothing.                                                 *)
C8_Idempotent ==
    applied >= 2 => txt = prev

Glyphs == {"dagger", "sect"}

Punctuation == {",", ".", ";", ":"}

(* C9: the output of clean_text (clean_normalized_csv.py and               *)
(* clean_hosts_full.py) has no bracketed segment, no footnote glyph, no    *)
(* run of two whitespace characters, and no leading or trailing            *)
(* whitespace or punctuation.                                              *)
C9_CleanOutput ==
    (applied >= 1 /\ fn \in {"clean_normalized_csv.clean_text", "clean_hosts_full.clean_text"}) =>
        /\ ~\E i \in 1..Len(txt) : \E j \in (i + 1)..Len(txt) : txt[i] = "[" /\ txt[j] = "]"
        /\ \A i \in 1..Len(txt) : txt[i] \notin Glyphs
        /\ \A i \in 1..(Len(txt) - 1) : ~(IsSpace(txt[i]) /\ IsSpace(txt[i + 1]))
        /\ Len(txt) > 0 =>
            /\ txt[1] \notin WhiteSpace \cup Punctuation
            /\ txt[Len(txt)] \notin WhiteSpace \cup Punctuation

\* the candidates of a run, in input order: the rows no 'continue' before the key test drops
RECURSIVE CandidatesOf(_)
CandidatesOf(opts) ==
    IF Len(opts) = 0 THEN <<>>
    ELSE IF Head(opts) = Nothing THEN CandidatesOf(Tail(opts))
    ELSE <<Head(opts)[1]>> \o CandidatesOf(Tail(opts))

\* the sort key (year, Summer before Winter) of a candidate
CandidateSortKey(c) == <<c.key[1], SeasonOrder(c.key[2])>>

RECURSIVE SortedFirst(_)
(* the candidates stably sorted: the first candidate of the least sort key, *)
(* then the others sorted                                                   *)
SortedFirst(cs) ==
    IF Len(cs) = 0 THEN <<>>
    ELSE LET m == CHOOSE i \in 1..Len(cs) :
                    /\ \A k \in 1..Len(cs) : ~KeyLess(CandidateSortKey(cs[k]), CandidateSortKey(cs[i]))
                    /\ \A k \in 1..(i - 1) : KeyLess(CandidateSortKey(cs[i]), CandidateSortKey(cs[k]))
         IN  <<cs[m]>> \o SortedFirst(SubSeq(cs, 1, m - 1) \o SubSeq(cs, m + 1, Len(cs)))

RECURSIVE FirstOfEachKey(_, _)
\* the first candidate of each key, in order
FirstOfEachKey(cs, seen) ==
    IF Len(cs) = 0 THEN <<>>
    ELSE IF Head(cs).key \in seen THEN FirstOfEachKey(Tail(cs), seen)
    ELSE <<Head(cs).rec>> \o FirstOfEachKey(Tail(cs), seen \cup {Head(cs).key})

SortThenDedup(cs) == FirstOfEachKey(SortedFirst(cs), {})

(* C10: the output of clean_rows and of clean_hosts_full.main (dedup in    *)
(* input order, then sort) is the list obtained by stably sorting all      *)
(* surviving candidates by (year, Summer before Winter) and keeping the    *)
(* first record of each (year, season, city) key.                          *)
C10_DedupThenSortIsSortThenDedup ==
    /\ RunNormalize =>
        cleaned = SortThenDedup(CandidatesOf([j \in 1..Len(rows) |-> CleanRowsCandidate(rows[j])]))
    /\ RunHosts =>
        kept = SortThenDedup(CandidatesOf([j \in 1..Len(source) |-> HostsCandidate(source[j])]))

\* C10 witness: clean_hosts_full.main met two rows of one key after a row of a later
\* year, kept the first of the two, and the sort moved it to the front
C10_Witness ==
    /\ RunHosts
    /\ Len(source) = 3
    /\ \A j \in 1..3 : HostsCandidate(source[j]) # Nothing
    /\ HostsCandidate(source[2])[1].key = HostsCandidate(source[3])[1].key
    /\ HostsCandidate(source[2])[1].rec # HostsCandidate(source[3])[1].rec
    /\ HostsCandidate(source[1])[1].rec.year > HostsCandidate(source[2])[1].rec.year
    /\ kept = <<HostsCandidate(source[2])[1].rec, HostsCandidate(source[1])[1].rec>>

\* the merged name of the 1956 hosts, and what it is split into
MergedCity == <<"M", "e", "l", "b", "o", "u", "r", "n", "e", "S", "t", "o", "c", "k", "h", "o", "l", "m">>

MergedCountry == <<"A", "u", "s", "t", "r", "a", "l", "i", "a", "S", "w", "e", "d", "e", "n">>

SplitCity == <<"M", "e", "l", "b", "o", "u", "r", "n", "e", " ", "/", " ", "S", "t", "o", "c", "k", "h", "o", "l", "m">>

SplitCountry == <<"A", "u", "s", "t", "r", "a", "l", "i", "a", " ", "/", " ", "S", "w", "e", "d", "e", "n">>

(* C11: a row with City 'MelbourneStockholm' and Country 'AustraliaSweden'  *)
(* is output with City 'Melbourne / Stockholm' and Country 'Australia /     *)
(* Sweden' by clean_rows and by clean_hosts_full.main, the merged name is   *)
(* never output, and a record built from a row with any other city has the  *)
(* city of that row (stripped by clean_rows, cleaned by clean_text in       *)
(* clean_hosts_full): split_merged_city is the identity on it.              *)
C11_MergedNameSplit ==
    /\ RunNormalize =>
        \A i \in 1..Len(cleaned) :
            /\ cleaned[i].City # MergedCity
            /\ \E j \in 1..Len(rows) :
                /\ BuiltFrom(cleaned[i], rows[j])
                /\ IF Strip(rows[j].City) = MergedCity
                   THEN /\ cleaned[i].City = SplitCity
                        /\ Strip(rows[j].Country) = MergedCountry => cleaned[i].Country = SplitCountry
                   ELSE cleaned[i].City = Strip(rows[j].City)
    /\ RunHosts =>
        /\ \A j \in 1..Len(source) :
            Len(source[j]) >= 5 /\ clean_text(source[j][3]) # MergedCity
                => split_merged_city(clean_text(source[j][3])) = clean_text(source[j][3])
        /\ \A i \in 1..Len(kept) :
            /\ kept[i].city # MergedCity
            /\ \E j \in 1..Len(source) :
                /\ Len(source[j]) >= 5
                /\ kept[i].notes = clean_text(source[j][5])
                /\ IF clean_text(source[j][3]) = MergedCity
                   THEN kept[i].city = SplitCity /\ kept[i].country = SplitCountry
                   ELSE kept[i].city = clean_text(source[j][3])

\* C11 witness: a run of either script met the merged row and wrote the split names
C11_Witness ==
    \/ /\ RunNormalize
       /\ \E j \in 1..Len(rows) : rows[j].City = MergedCity /\ rows[j].Country = MergedCountry
       /\ \E i \in 1..Len(cleaned) : cleaned[i].City = SplitCity /\ cleaned[i].Country = SplitCountry
    \/ /\ RunHosts
       /\ \E j \in 1..Len(source) : Len(source[j]) >= 5 /\ source[j][3] = MergedCity /\ source[j][4] = MergedCountry
       /\ \E i \in 1..Len(kept) : kept[i].city = SplitCity /\ kept[i].country = SplitCountry

(***************************************************************************)
(* Properties of the geocode cache.                                        *)
(***************************************************************************)
\* the entries of a cache, in order
Entries(c) == [i \in 1..Len(c) |-> c[i][2]]

\* an entry is resolved: status ok and coordinates
IsOk(e) == e.status = "ok" /\ e.lat # Nothing /\ e.lon # Nothing

\* the statuses of an entry that holds no coordinates yet
Unresolved == {"pending", "not_found", "error"}

\* cache c2 still holds every resolved entry of cache c1, with the same coordinates and status
KeepsResolved(c1, c2) ==
    \A i \in 1..Len(c1) :
        IsOk(c1[i][2]) =>
            /\ DictHas(c2, c1[i][1])
            /\ DictGet(c2, c1[i][1]).lat = c1[i][2].lat
            /\ DictGet(c2, c1[i][1]).lon = c1[i][2].lon
            /\ DictGet(c2, c1[i][1]).status = c1[i][2].status

\* a run of geocode_rows has completed (final save and summary done)
GeocodeDone == prog = "geocode" /\ gpc = "done"

\* the keys of the provider calls of this run
CalledKeys == {called[j].key : j \in 1..Len(called)}

C13_UnresolvedRetried ==
    GeocodeDone =>
        \A i \in 1..Len(csv) :
            /\ DictHas(atLoad, make_key(csv[i]))
            /\ DictGet(atLoad, make_key(csv[i])).status \in Unresolved
            /\ Len(Query(csv[i].City, csv[i].Country)) > 0
            => make_key(csv[i]) \in CalledKeys

(* C14: in every state of the cache built by bootstrap and geocode_rows    *)
(* from a missing file, in memory and in the file, an entry with status    *)
(* ok has lat and lon, and an entry with status pending, not_found,        *)
(* no_query or error has neither; there is no other status.                *)
C14_OkHasCoordinates ==
    \A e \in {cache[i][2] : i \in 1..Len(cache)} \cup {disk.members[i][2] : i \in 1..Len(disk.members)} :
        /\ e.status \in {"ok", "pending", "not_found", "no_query", "error"}
        /\ e.status = "ok" => e.lat # Nothing /\ e.lon # Nothing
        /\ e.status # "ok" => e.lat = Nothing /\ e.lon = Nothing

\* C14 witness: the file holds a resolved entry with its coordinates next to a
\* placeholder without coordinates
C14_Witness ==
    /\ \E i \in 1..Len(disk.members) : IsOk(disk.members[i][2])
    /\ \E i \in 1..Len(disk.members) :
        disk.members[i][2].status = "pending" /\ disk.members[i][2].lat = Nothing

(* C15: within one run of geocode_rows the provider is called at most      *)
(* once per key Year|City|Country: never for a key that was in the cache   *)
(* at load time, never with an empty query, and never twice for one key,   *)
(* whatever the first call returned.                                       *)
C15_OneCallPerKey ==
    prog = "geocode" =>
        /\ \A j \in 1..Len(called) :
            /\ ~DictHas(atLoad, called[j].key)
            /\ Len(called[j].query) > 0
        /\ \A j, k \in 1..Len(called) : called[j].key = called[k].key => j = k

\* C15 witness: a completed run met two CSV rows of one key, called the provider
\* once, and the call had raised
C15_Witness ==
    /\ GeocodeDone
    /\ Len(called) = 1
    /\ \E i, j \in 1..Len(csv) : i < j /\ csv[i] # csv[j] /\ make_key(csv[i]) = make_key(csv[j])
                                  /\ make_key(csv[i]) = called[1].key
    /\ DictGet(cache, called[1].key).status = "error"

(* C16: incremental checkpointing.  At every point of a run of            *)
(* geocode_rows outside save_cache, in particular when the provider is     *)
(* called for the next record and when the run is interrupted, the cache   *)
(* file is well formed and holds the entry of every record whose provider  *)
(* call has completed in this run (its key is in the in-memory cache): at  *)
(* most the lookup in flight is missing from the file.                     *)
C16_CheckpointBeforeNextCall ==
    prog = "geocode" =>
        \A j \in 1..Len(called) :
            DictHas(cache, called[j].key) =>
                /\ WellFormed(disk)
                /\ DictHas(disk.members, called[j].key)
                /\ DictGet(disk.members, called[j].key) = DictGet(cache, called[j].key)

\* C16 witness: the second provider call of a run is in flight and the entry of the
\* first is in the file
C16_Witness ==
    /\ prog = "geocode" /\ gpc = "calling"
    /\ Len(called) = 2
    /\ DictHas(disk.members, called[1].key)
    /\ ~DictHas(disk.members, called[2].key)

(* C17: crash safety of the cache file.  When the process has crashed      *)
(* during save_cache, the cache file holds the complete previous mapping   *)
(* (or is still missing, when there was none) or the complete new          *)
(* mapping: never an empty, truncated or partly written document.          *)
C17_FileOldOrNewAfterCrash ==
    gpc = "crashed" =>
        \/ ~disk.exists /\ atLoad = <<>>
        \/ WellFormed(disk) /\ disk.members \in {atLoad, cache}

(***************************************************************************)
(* Properties of the databases.                                            *)
(***************************************************************************)
\* the columns upsert merges with COALESCE
CoalescedColumns == {"lat", "lon", "geocode_status", "geocode_provider", "geocode_ts", "address"}

\* at most one row of the table per (year, city, country)
UniqueRows(tbl) ==
    \A a, b \in tbl : a.year = b.year /\ a.city = b.city /\ a.country = b.country => a = b

(* C18: upsert with preserve-previous in build_geocoded_db.  Over any      *)
(* sequence of upsert calls the table geocoded_hosts holds at most one     *)
(* row per (year, city, country); a stored row stays, and each of its      *)
(* columns lat, lon, geocode_status, geocode_provider, geocode_ts and      *)
(* address that is not NULL stays not NULL, stays as it is when the        *)
(* incoming value is NULL, and stays as it is when the call is for         *)
(* another key.                                                            *)
C18_UpsertPreservesPrevious ==
    [][/\ UniqueRows(table')
       /\ \A row \in table :
            \E new \in table' :
                /\ new.id = row.id
                /\ new.year = row.year /\ new.city = row.city /\ new.country = row.country
                /\ \A f \in CoalescedColumns :
                    /\ row[f] # Nothing => new[f] # Nothing
                    /\ incoming'[1][f] = Nothing => new[f] = row[f]
                    /\ ~(incoming'[1].year = row.year /\ incoming'[1].city = row.city
                            /\ incoming'[1].country = row.country) => new[f] = row[f]]_vars

\* C18 witness: upsert was called with NULL lat and lon for a key whose stored row
\* has coordinates, next to a row of another key
C18_Witness ==
    /\ script = "merge"
    /\ Len(incoming) = 1
    /\ incoming[1].lat = Nothing /\ incoming[1].lon = Nothing
    /\ \E row \in table :
        /\ row.year = incoming[1].year /\ row.city = incoming[1].city
        /\ row.country = incoming[1].country
        /\ row.lat # Nothing /\ row.lon # Nothing
    /\ Cardinality(table) > 1

(* C19: every sink keyed by (year, city, country) preserves the previous   *)
(* coordinates: when upsert_record (json_to_sqlite.py) or insert_rows      *)
(* (json_geocoded_to_sqlite.py) writes a record with NULL lat or lon for   *)
(* a key whose stored row has lat and lon, the stored lat and lon are      *)
(* kept.                                                                   *)
C19_SinksPreservePrevious ==
    [][\A row \in table :
           \A k \in 1..Len(incoming') :
               /\ SameKey(row, incoming'[k])
               /\ row.lat # Nothing /\ row.lon # Nothing
               /\ incoming'[k].lat = Nothing \/ incoming'[k].lon = Nothing
               => \E new \in table' :
                      SameKey(new, row) /\ new.lat = row.lat /\ new.lon = row.lon]_vars


\* a lookup result (lat, lon) that has both coordinates
HasPair(lat, lon) == lat # Nothing /\ lon # Nothing

\* the tiers of augment for a row: the (lat, lon) each yields, Nothing when it has no match
AugmentTiers(row) ==
    LET norm == load_geocode_cache(cache)
        tier(key) == IF CacheGet(norm, key) = Nothing THEN Nothing
                     ELSE Some(<<CacheGet(norm, key)[1][1], CacheGet(norm, key)[1][2]>>)
    IN  <<tier(build_row_key(row)[1]), tier(build_row_key(row)[2])>>

\* the tiers of find_cache_entry for a row
MergeTiers(row) ==
    LET tier(hit) == IF hit = Nothing THEN Nothing ELSE Some(<<hit[1][2].lat, hit[1][2].lon>>)
    IN  <<tier(ExactTier(cache, Strip(row.Year), Strip(row.City), Strip(row.Country))),
          tier(YearCityTier(cache, Strip(row.Year), Strip(row.City))),
          tier(CityTier(cache, Strip(row.City)))>>

\* an earlier tier matches an entry without a coordinate pair and tier j is the first
\* that yields one
LaterTierWins(tiers, j) ==
    /\ tiers[j] # Nothing /\ HasPair(tiers[j][1][1], tiers[j][1][2])
    /\ \A i \in 1..(j - 1) : tiers[i] = Nothing \/ ~HasPair(tiers[i][1][1], tiers[i][1][2])
    /\ \E i \in 1..(j - 1) : tiers[i] # Nothing

(* C20: the tiered lookup returns the first tier that yields a non-null    *)
(* coordinate pair.  In augment (exact key, relaxed key) and in            *)
(* find_cache_entry (exact key, year+city scan, city-only scan), when an   *)
(* earlier tier matches an entry whose lat or lon is null and a later      *)
(* tier matches an entry with lat and lon, the row is given the later      *)
(* tier's coordinates.                                                     *)
C20_FirstTierWithCoordinatesWins ==
    gpc = "done" /\ script \in {"augment_geocodes", "build_geocoded_db"} =>
        \A n \in 1..Len(summary) :
            LET tiers == IF script = "augment_geocodes" THEN AugmentTiers(csv[n])
                         ELSE MergeTiers(csv[n])
            IN  \A j \in 2..Len(tiers) :
                    LaterTierWins(tiers, j) =>
                        /\ summary[n].lat = tiers[j][1][1]
                        /\ summary[n].lon = tiers[j][1][2]


\* the exact key load_geocode_cache gives a cache entry
EntryExactKey(e) == ExactKey(e.year, e.city, e.country)

\* the row's year, city and country equal the entry's after trimming and removing spaces
SameRelaxed(row, e) ==
    RelaxedKey(row.Year, row.City, row.Country) = RelaxedKey(e.year, e.city, e.country)

\* no entry of the cache file has the row's exact key
NoExactEntry(row) ==
    \A j \in 1..Len(cache) : EntryExactKey(cache[j][2]) # build_row_key(row)[1]

(* C21: relaxed-key lookup in augment.  For every CSV row and every cache  *)
(* entry with lat and lon whose year, city and country equal the row's     *)
(* after trimming and removing spaces, when no cache entry has the row's   *)
(* exact key, the row is matched and gets that entry's lat, lon and        *)
(* provider.                                                               *)
C21_RelaxedKeyResolves ==
    gpc = "done" /\ script = "augment_geocodes" =>
        \A n \in 1..Len(summary) : \A i \in 1..Len(cache) :
            /\ HasPair(cache[i][2].lat, cache[i][2].lon)
            /\ SameRelaxed(csv[n], cache[i][2])
            /\ NoExactEntry(csv[n])
            => /\ summary[n].lat = cache[i][2].lat
               /\ summary[n].lon = cache[i][2].lon
               /\ summary[n].geocode_provider = cache[i][2].provider


\* a step that is a whole run of bootstrap()
BootstrapRun == prog' = "bootstrap" /\ runs' = runs + 1

\* the keys bootstrap created in the run that has just ended
Created == {key \in DictKeys(cache) : ~DictHas(atLoad, key)}

(* C22: bootstrap adds placeholders and nothing else.  After bootstrap()   *)
(* the cache has an entry for the key of every CSV row; each entry it      *)
(* created has status 'pending' and null lat and lon; every entry that     *)
(* was in the cache before the call is unchanged; and the cache file is    *)
(* rewritten only when at least one entry was added, and then holds the    *)
(* cache.                                                                  *)
C22_BootstrapAddsPlaceholdersOnly ==
    [][BootstrapRun =>
        /\ atLoad' = load_cache(disk)
        /\ \A i \in 1..Len(csv) : DictHas(cache', make_key(csv[i]))
        /\ \A key \in DictKeys(cache') :
            IF DictHas(atLoad', key)
            THEN DictGet(cache', key) = DictGet(atLoad', key)
            ELSE /\ DictGet(cache', key).status = "pending"
                 /\ DictGet(cache', key).lat = Nothing
                 /\ DictGet(cache', key).lon = Nothing
                 /\ \E i \in 1..Len(csv) : make_key(csv[i]) = key
        /\ \A key \in DictKeys(atLoad') : DictHas(cache', key)
        /\ IF DictKeys(cache') = DictKeys(atLoad')
           THEN disk' = disk
           ELSE WellFormed(disk') /\ load_cache(disk') = cache']_vars

\* C22 witness: bootstrap has run on a cache file that held a resolved entry and
\* has added a placeholder for another row
C22_Witness ==
    /\ prog = "bootstrap" /\ gpc = "done"
    /\ \E key \in DictKeys(atLoad) : DictGet(atLoad, key).status = "ok"
    /\ Created # {}
    /\ load_cache(disk) = cache


\* the entry of the provider call that has just been answered is a failure
Failed(c, key) ==
    DictHas(c, key) /\ DictGet(c, key).status \in {"error", "not_found"}

\* geocode_rows is in its loop after a provider call that failed
AfterFailure ==
    /\ prog = "geocode" /\ gpc = "loop"
    /\ \E k \in 1..Len(called) : Failed(cache, called[k].key)

\* geocode_rows has ended: every CSV row has its entry, the file holds the cache and
\* the summary has a row per entry
RunComplete ==
    /\ prog = "geocode" /\ gpc = "done"
    /\ \A i \in 1..Len(csv) : DictHas(cache, make_key(csv[i]))
    /\ WellFormed(disk) /\ load_cache(disk) = cache
    /\ summary = SummaryRows(cache)

(* C23: a geocode failure never aborts the run.  When the provider call    *)
(* for a record raises or returns nothing, geocode_rows records a cache    *)
(* entry for that key with status 'error' or 'not_found' and null lat and  *)
(* lon and stays in its loop at the next row; and unless it is             *)
(* interrupted from outside, it then processes every remaining CSV row,    *)
(* makes the final save and writes the CSV summary.                        *)
C23_FailureNeverAborts ==
    /\ [][gpc = "calling" /\ cache' # cache =>
            /\ DictHas(cache', called[Len(called)].key)
            /\ LET entry == DictGet(cache', called[Len(called)].key)
               IN  entry.status # "ok" =>
                     /\ entry.status \in {"error", "not_found"}
                     /\ entry.lat = Nothing /\ entry.lon = Nothing
            /\ gpc' = "loop" /\ pos' = pos + 1]_vars
    /\ (AfterFailure ~> (RunComplete \/ gpc = "stopped"))

\* C23 witness: a run has ended in which the call for the first row failed and the
\* call for a later row was made and answered with a location
C23_Witness ==
    /\ RunComplete
    /\ Len(called) = 2
    /\ Failed(cache, called[1].key)
    /\ DictGet(cache, called[2].key).status = "ok"
    /\ \E i \in 1..Len(summary) : summary[i].key = called[1].key /\ summary[i].lat = Nothing


(***************************************************************************)
(* Properties of the functions applied to one input.                       *)
(***************************************************************************)
\* the texts of the cells of the <tr> extract_row_normalized was applied to
RowTexts == [i \in 1..Len(prev.cells) |-> strip_footnotes(prev.cells[i].text)]

\* the cell chosen as City: the first linked non-year cell, else the first non-empty
\* non-year cell; 0 when there is none
CityCell ==
    LET linked == FirstIn({i \in 1..Len(RowTexts) :
                            prev.cells[i].link /\ ~YearFound(RowTexts[i])})
    IN  IF linked > 0 THEN linked
        ELSE FirstIn({i \in 1..Len(RowTexts) :
                        Len(RowTexts[i]) > 0 /\ ~YearFound(RowTexts[i])})

(* C24: in extract_row_normalized, Country is the text of the cell         *)
(* immediately after the cell chosen as City when that next cell is not    *)
(* year-like, and empty otherwise, also when an earlier cell of the row    *)
(* has the same text as the chosen City cell.                              *)
C24_CountryFollowsCityCell ==
    script = "row" /\ applied = 1 /\ CityCell > 0 =>
        /\ txt.City = RowTexts[CityCell]
        /\ txt.Country = IF /\ CityCell + 1 <= Len(RowTexts)
                            /\ ~YearFound(RowTexts[CityCell + 1])
                         THEN RowTexts[CityCell + 1] ELSE <<>>


(* C25: json_to_sqlite.main on a document whose root is a mapping from     *)
(* composite key to geocode record (what save_cache writes) takes the      *)
(* list of its values and upserts one row per record with that record's    *)
(* year, city and country; running it twice on the same document leaves    *)
(* as many rows as running it once.                                        *)
C25_MappingDocumentLoaded ==
    script = "json_to_sqlite" /\ loads >= 1 =>
        /\ \A i \in 1..Len(disk.members) :
            \E row \in table :
                /\ row.year = TextOrNone(disk.members[i][2].year)
                /\ row.city = TextOrNone(disk.members[i][2].city)
                /\ row.country = TextOrNone(disk.members[i][2].country)
        /\ Cardinality(table) = Len(disk.members)


RECURSIVE OpenQuote(_, _)
\* the quote character of the string that is open after position i of the text (a
\* string runs from a quote character outside every string to the next occurrence of
\* the same character, or to the end of the text); "" when none is open
OpenQuote(text, i) ==
    IF i = 0 THEN ""
    ELSE LET before == OpenQuote(text, i - 1)
         IN  IF before = "" THEN (IF text[i] \in {"'", "\""} THEN text[i] ELSE "")
             ELSE IF text[i] = before THEN "" ELSE before

\* the positions of the semicolons outside the strings, with 0 and Len + 1 as the ends
Cuts(text) ==
    {0, Len(text) + 1} \cup {i \in 1..Len(text) : text[i] = ";" /\ OpenQuote(text, i) = ""}

\* the pieces between two neighbouring cuts that are not blank, each as its first and
\* last position
Pieces(text) ==
    LET all == {<<c[1] + 1, c[2] - 1>> : c \in {d \in Cuts(text) \X Cuts(text) :
                    d[1] < d[2] /\ \A m \in Cuts(text) : ~(d[1] < m /\ m < d[2])}}
    IN  {p \in all : Len(Strip(Slice(text, p[1], p[2]))) > 0}

\* the k-th piece in source order
NthPiece(text, k) ==
    CHOOSE p \in Pieces(text) : Cardinality({q \in Pieces(text) : q[1] < p[1]}) = k - 1

(* C26: split_statements splits SQL text at exactly the semicolons that    *)
(* lie outside single-quoted and double-quoted strings: the returned       *)
(* statements are, in source order, the stripped pieces of the text        *)
(* between those semicolons that are not empty after stripping; so no      *)
(* statement contains a semicolon that was outside quotes and a semicolon  *)
(* inside a quoted string never ends a statement.                          *)
C26_SplitAtSemicolonsOutsideQuotes ==
    script = "sql" /\ applied = 1 =>
        /\ Len(txt) = Cardinality(Pieces(prev))
        /\ \A k \in 1..Len(txt) :
            /\ txt[k] = Strip(Slice(prev, NthPiece(prev, k)[1], NthPiece(prev, k)[2]))
            /\ Len(txt[k]) > 0

\* C26 witness: a text with a semicolon inside a string and a semicolon outside was
\* split in two statements, one of them with the semicolon
C26_Witness ==
    /\ script = "sql" /\ applied = 1
    /\ \E i, j \in 1..Len(prev) :
        /\ prev[i] = ";" /\ OpenQuote(prev, i) # ""
        /\ prev[j] = ";" /\ OpenQuote(prev, j) = ""
    /\ Len(txt) = 2
    /\ \E k \in 1..2 : \E i \in 1..Len(txt[k]) : txt[k][i] = ";"


(***************************************************************************)
(* Properties of the season.                                               *)
(***************************************************************************)
\* the years that are in both lists
BothSeasons == SUMMER_YEARS \cap WINTER_YEARS

(* C27: Winter takes priority.  determine_season and                       *)
(* determine_season_by_year return 'Winter' for every year in              *)
(* WINTER_YEARS, the years that are also in SUMMER_YEARS included; so for  *)
(* such a year every output record of clean_rows and of                    *)
(* clean_hosts_full.main has season Winter, and two records of one such    *)
(* year never differ in their season.                                      *)
C27_WinterPriority ==
    /\ \A y \in WINTER_YEARS :
        determine_season(y) = "Winter" /\ determine_season_by_year(y) = "Winter"
    /\ \A i \in 1..Len(cleaned) :
        IntOfStr(cleaned[i].Year) \in WINTER_YEARS => cleaned[i].Season = "Winter"
    /\ \A i \in 1..Len(kept) :
        kept[i].year \in WINTER_YEARS => kept[i].season = "Winter"

\* C27 witness: clean_rows was given a row of a Summer table for 1924, a year of both
\* lists, and its record has season Winter
C27_Witness ==
    /\ script = "normalize" /\ pc = "done"
    /\ \E i \in 1..Len(rows), j \in 1..Len(cleaned) :
        /\ rows[i].Season = "Summer" /\ IsDigitStr(rows[i].Year)
        /\ IntOfStr(rows[i].Year) \in BothSeasons
        /\ cleaned[j].Year = rows[i].Year /\ cleaned[j].City = rows[i].City
        /\ cleaned[j].Season = "Winter"


\* populate_games_code.py and, after it, update_season.py have run
Settled ==
    \E i, j \in 1..Len(incoming) :
        i < j /\ incoming[i] = "populate_games_code" /\ incoming[j] = "update_season"

(* C28: after populate_games_code and then update_season on the olympics   *)
(* table, each row's season depends only on its year text and not on the   *)
(* season it had before: it is 'Winter' if the year is in WINTER_YEARS,    *)
(* 'Summer' if the year starts with a digit and is not in WINTER_YEARS,    *)
(* and unchanged otherwise (no run changes the season of such a row);      *)
(* running the two steps again changes nothing.                            *)
C28_SeasonFromYear ==
    /\ [](script = "season" /\ Settled =>
            \A row \in table :
                /\ row.year \in WinterYearTexts => row.season = "Winter"
                /\ StartsWithDigit(row.year) /\ row.year \notin WinterYearTexts
                    => row.season = "Summer")
    /\ [][script = "season" =>
            /\ \A row \in table :
                ~StartsWithDigit(row.year) =>
                    \E new \in table' : new.id = row.id /\ new.season = row.season
            /\ Settled => table' = table]_vars

\* C28 witness: both scripts have run twice on a table with a row of a Summer table
\* whose year is a Winter year and a row of a Winter table whose year is not
C28_Witness ==
    /\ script = "season"
    /\ incoming = <<"populate_games_code", "update_season", "populate_games_code", "update_season">>
    /\ \E a, b \in table :
        /\ a.year \in WinterYearTexts /\ a.season = "Winter" /\ a.games_code = Some(<<"W">> \o a.year)
        /\ b.year \notin WinterYearTexts /\ StartsWithDigit(b.year)
        /\ b.season = "Summer" /\ b.games_code = Some(<<"S">> \o b.year)


\* the position of the last entry of the cache file whose exact key is k
LastExact(k) ==
    CHOOSE j \in 1..Len(cache) :
        /\ EntryExactKey(cache[j][2]) = k
        /\ \A i \in 1..Len(cache) : EntryExactKey(cache[i][2]) = k => i <= j

(* C29: in load_geocode_cache an exact key wins over a relaxed alias in    *)
(* either order of the entries: when an entry of the cache file has the    *)
(* exact key k, norm[k] is the (lat, lon, provider) of the last entry      *)
(* whose exact key is k.                                                   *)
C29_ExactKeyWinsOverAlias ==
    script = "augment_geocodes" /\ gpc = "done" =>
        \A i \in 1..Len(cache) :
            LET k == EntryExactKey(cache[i][2])
                e == cache[LastExact(k)][2]
            IN  /\ DictHas(load_geocode_cache(cache), k)
                /\ DictGet(load_geocode_cache(cache), k) = <<e.lat, e.lon, e.provider>>

\* C29 witness: augment has loaded a cache file in which an entry with the exact key k
\* is followed by an entry with other coordinates whose relaxed key is k
C29_Witness ==
    /\ script = "augment_geocodes" /\ gpc = "done"
    /\ Len(cache) = 2
    /\ EntryExactKey(cache[1][2]) # EntryExactKey(cache[2][2])
    /\ RelaxedKey(cache[2][2].year, cache[2][2].city, cache[2][2].country)
            = EntryExactKey(cache[1][2])
    /\ cache[1][2].lat # cache[2][2].lat


\* the (Year, City, Country) of the rows of the input CSV
CsvKeys == {<<csv[i].Year, csv[i].City, csv[i].Country>> : i \in 1..Len(csv)}

(* C30: the export chain augment -> csv_to_json_geocoded.main ->           *)
(* json_geocoded_to_sqlite.main stores one row for every distinct          *)
(* (Year, City, Country) of the input CSV, rows without a geocode match    *)
(* included: an unmatched record neither makes the load fail nor drops     *)
(* other records.                                                          *)
C30_ExportStoresEveryRecord ==
    script = "augment_geocodes" /\ gpc = "loaded" =>
        /\ \A k \in CsvKeys :
            \E row \in table :
                /\ row.year = Some(IntOfStr(k[1]))
                /\ row.city = Some(k[2]) /\ row.country = Some(k[3])
        /\ Cardinality(table) = Cardinality(CsvKeys)

====
